---- MODULE Spec2Model ----
(***************************************************************************)
(* Model of zxteamorg/node.sql: the migration source model                 *)
(* (MigrationSources, VersionBundle, Script) and the migration execution   *)
(* engine (MigrationManager.install / MigrationManager.rollback).          *)
(*                                                                         *)
(* Strings of the program (version names, script names) are sequences of   *)
(* UTF-16 code units, so that JavaScript's string comparison and default   *)
(* Array.prototype.sort order are computed, not assumed.                   *)
(***************************************************************************)
EXTENDS Integers, Sequences, FiniteSets, TLC

VARIABLES
    sources,    \* the MigrationSources given to the manager (this._migrationSources)
    db,         \* committed database: version table, its log rows, script effects
    budget,     \* how many install/rollback invocations may still be made
    pc,         \* position of the running invocation
    call,       \* locals of the running invocation
    tx,         \* the open transaction of usingProviderWithTransaction, if any
    scopes,     \* number of provider scopes currently open
    inflight,   \* scripts/statements submitted and not yet settled
    lines,      \* MigrationLogger._lines of the current version's capture logger
    wraplog,    \* entries received by the injected logger (this._log) in this invocation
    events,     \* what the running invocation did, in order
    result,     \* outcome of the last invocation: "none", "running", "ok", "failed"
    cancellationToken,  \* isCancellationRequested of the token the host passes to every operation
    error,      \* class of the error the last operation rejected with, "none" when it did not
    fs,         \* the directories and files of the host, by path
    job         \* the running MigrationSources operation and its locals

vars == <<sources, db, budget, pc, call, tx, scopes, inflight, lines, wraplog, events, result,
          cancellationToken, error, fs, job>>

-----------------------------------------------------------------------------
(* Bounds *)

\* largest number of version directories in the sources
MaxVersions == 3
\* largest number of log rows already in the version table when the manager is used
MaxLogged == 2

-----------------------------------------------------------------------------
(* Strings *)

\* JavaScript null / undefined; no program string equals them
NULL == <<-1>>
UNDEFINED == <<-2>>

\* "v0001", "v0002", "v10", "v9", "vXXXX"
V0001 == <<118, 48, 48, 48, 49>>
V0002 == <<118, 48, 48, 48, 50>>
V10 == <<118, 49, 48>>
V9 == <<118, 57>>
VXXXX == <<118, 88, 88, 88, 88>>

\* "1.sql", "2.js", "9.sql", "10.sql", "9.txt"
F1sql == <<49, 46, 115, 113, 108>>
F2js == <<50, 46, 106, 115>>
F9sql == <<57, 46, 115, 113, 108>>
F10sql == <<49, 48, 46, 115, 113, 108>>
F9txt == <<57, 46, 116, 120, 116>>

\* ".sql", ".js"
ExtSql == <<46, 115, 113, 108>>
ExtJs == <<46, 106, 115>>

\* a < b for JavaScript strings: lexicographic by UTF-16 code unit
RECURSIVE StrLess(_, _)
StrLess(a, b) ==
    IF b = <<>> THEN FALSE
    ELSE IF a = <<>> THEN TRUE
    ELSE IF Head(a) # Head(b) THEN Head(a) < Head(b)
    ELSE StrLess(Tail(a), Tail(b))

StrLessEq(a, b) == a = b \/ StrLess(a, b)
StrGreater(a, b) == StrLess(b, a)

\* Array.prototype.sort() without a comparator: ascending by code unit, stable
RECURSIVE SortInsert(_, _)
SortInsert(x, s) ==
    IF s = <<>> THEN <<x>>
    ELSE IF StrLess(x, Head(s)) THEN <<x>> \o s
    ELSE <<Head(s)>> \o SortInsert(x, Tail(s))

RECURSIVE Sort(_)
Sort(s) == IF s = <<>> THEN <<>> ELSE SortInsert(Head(s), Sort(Tail(s)))

\* Array.prototype.reverse()
RECURSIVE Reverse(_)
Reverse(s) == IF s = <<>> THEN <<>> ELSE Reverse(Tail(s)) \o <<Head(s)>>

Range(s) == {s[i] : i \in 1..Len(s)}

\* index of the last occurrence of code unit ch in s[1..i], 0 if none
RECURSIVE LastIndexOf(_, _, _)
LastIndexOf(s, ch, i) ==
    IF i = 0 THEN 0 ELSE IF s[i] = ch THEN i ELSE LastIndexOf(s, ch, i - 1)

\* path.basename: what follows the last "/"
Basename(p) == SubSeq(p, LastIndexOf(p, 47, Len(p)) + 1, Len(p))

\* path.extname: from the last "." of the base name, "" when there is none or it comes first
ExtName(p) ==
    LET base == Basename(p)
        d == LastIndexOf(base, 46, Len(base))
    IN IF d <= 1 THEN <<>> ELSE SubSeq(base, d, Len(base))

-----------------------------------------------------------------------------
(* MigrationSources *)

\* String.prototype.toLowerCase on the letters A-Z
ToLowerCase(s) == [i \in 1..Len(s) |-> IF s[i] \in 65..90 THEN s[i] + 32 ELSE s[i]]

\* the extension compared without regard to case
resolveScriptKindByExtension_ignoreCase(fileName) ==
    LET ext == ToLowerCase(ExtName(fileName))
    IN IF ext = ExtSql THEN "SQL"
       ELSE IF ext = ExtJs THEN "JAVASCRIPT"
       ELSE "UNKNOWN"

resolveScriptKindByExtension(fileName) ==
    LET ext == ExtName(fileName)
    IN IF ext = ExtSql THEN "SQL"
       ELSE IF ext = ExtJs THEN "JAVASCRIPT"
       ELSE "UNKNOWN"

Script(name, kind, file, content) ==
    [name |-> name, kind |-> kind, file |-> file, content |-> content]

\* new Map(items.map(item => [item.name, item])): a later item replaces an earlier one
RECURSIVE LastNamed(_, _)
LastNamed(items, n) ==
    IF items[Len(items)].name = n THEN items[Len(items)]
    ELSE LastNamed(SubSeq(items, 1, Len(items) - 1), n)

ScriptMap(items) == [n \in {items[i].name : i \in 1..Len(items)} |-> LastNamed(items, n)]

\* [...map.keys()]: the keys in order of first insertion
RECURSIVE MapKeys(_)
MapKeys(names) ==
    IF names = <<>> THEN <<>>
    ELSE LET front == SubSeq(names, 1, Len(names) - 1)
             last == names[Len(names)]
         IN IF last \in Range(front) THEN MapKeys(front) ELSE MapKeys(front) \o <<last>>

VersionBundle(versionName, installItems, rollbackItems) ==
    [versionName |-> versionName,
     installScripts |-> ScriptMap(installItems),
     rollbackScripts |-> ScriptMap(rollbackItems),
     installScriptNames |-> Sort(MapKeys([i \in 1..Len(installItems) |-> installItems[i].name])),
     rollbackScriptNames |-> Sort(MapKeys([i \in 1..Len(rollbackItems) |-> rollbackItems[i].name]))]

RECURSIVE LastBundle(_, _)
LastBundle(bundles, n) ==
    IF bundles[Len(bundles)].versionName = n THEN bundles[Len(bundles)]
    ELSE LastBundle(SubSeq(bundles, 1, Len(bundles) - 1), n)

\* the MigrationSources constructor without the sort() of the keys
MigrationSources_unsorted(bundles) ==
    [versions |-> [n \in {bundles[i].versionName : i \in 1..Len(bundles)} |-> LastBundle(bundles, n)],
     versionNames |-> MapKeys([i \in 1..Len(bundles) |-> bundles[i].versionName])]

\* MigrationSources constructor 960-963
MigrationSources(bundles) ==
    [versions |-> [n \in {bundles[i].versionName : i \in 1..Len(bundles)} |-> LastBundle(bundles, n)],
     versionNames |-> Sort(MapKeys([i \in 1..Len(bundles) |-> bundles[i].versionName]))]

\* throw new ArgumentError(paramName, ...): what a lookup gives for a name that is not a key
ArgumentError(paramName) == [thrown |-> "ArgumentError", paramName |-> paramName]

\* Map.prototype.get without the test for undefined
getVersionBundle_unchecked(src, versionName) ==
    IF versionName \in DOMAIN src.versions THEN src.versions[versionName] ELSE [undefined |-> TRUE]

\* getVersionBundle / getInstallScript / getRollbackScript: the value under the name, or the
\* ArgumentError thrown when the Map has no such key
getVersionBundle(src, versionName) ==
    IF versionName \in DOMAIN src.versions THEN src.versions[versionName]
    ELSE ArgumentError("versionName")
getInstallScript(bundle, itemName) ==
    IF itemName \in DOMAIN bundle.installScripts THEN bundle.installScripts[itemName]
    ELSE ArgumentError("itemName")
getRollbackScript(bundle, itemName) ==
    IF itemName \in DOMAIN bundle.rollbackScripts THEN bundle.rollbackScripts[itemName]
    ELSE ArgumentError("itemName")

-----------------------------------------------------------------------------
(* The migration directory the sources are loaded from *)

VersionUniverse == {V0001, V0002, V10, V9, VXXXX}

\* "/m", the root of the migration directory; "install", "rollback" (MigrationSources.Direction)
RootDir == <<47, 109>>
DirInstall == <<105, 110, 115, 116, 97, 108, 108>>
DirRollback == <<114, 111, 108, 108, 98, 97, 99, 107>>
Directions == {DirInstall, DirRollback}

\* path.join of two segments
PathJoin(a, b) == a \o <<47>> \o b

\* file names of <version>/install and <version>/rollback, in the order the host lists them
TreeFiles(v, direction) ==
    IF v = V0001 THEN (IF direction = DirInstall THEN <<F1sql, F2js>> ELSE <<F1sql, F2js>>)
    ELSE IF v = V0002 THEN (IF direction = DirInstall THEN <<F9sql, F10sql>> ELSE <<F10sql, F9txt>>)
    ELSE IF v = V10 THEN (IF direction = DirInstall THEN <<F1sql>> ELSE <<>>)
    ELSE IF v = V9 THEN (IF direction = DirInstall THEN <<>> ELSE <<F1sql>>)
    ELSE (IF direction = DirInstall THEN <<F9txt, F1sql>> ELSE <<F1sql, F2js>>)

\* UTF-8 text of a file of the tree: its path relative to the root
TreeContent(v, direction, file) == PathJoin(PathJoin(v, direction), file)

LoadItems(v, direction) ==
    LET files == TreeFiles(v, direction)
        dir == PathJoin(PathJoin(RootDir, v), direction)
    IN [i \in 1..Len(files) |->
           Script(files[i], resolveScriptKindByExtension(PathJoin(dir, files[i])),
                  PathJoin(dir, files[i]), TreeContent(v, direction, files[i]))]

\* the bundle loadFromFilesystem builds for one version directory
LoadBundle(v) == VersionBundle(v, LoadItems(v, DirInstall), LoadItems(v, DirRollback))

\* every order in which the host may list a set of version directories
Orderings(S) == {s \in [1..Cardinality(S) -> S] : Range(s) = S}

LoadedSources(listVersions) ==
    MigrationSources([i \in 1..Len(listVersions) |-> LoadBundle(listVersions[i])])

-----------------------------------------------------------------------------
(* MigrationManager: the schedule *)

\* scheduleVersions.reduce((p, c) => { if (c > currentVersion) p.push(c); return p; }, [])
RECURSIVE ReducePushGreater(_, _, _)
ReducePushGreater(s, p, currentVersion) ==
    IF s = <<>> THEN p
    ELSE ReducePushGreater(Tail(s),
             IF StrGreater(Head(s), currentVersion) THEN Append(p, Head(s)) ELSE p,
             currentVersion)

\* scheduleVersions.reduceRight((p, c) => { if (c <= targetVersion) p.unshift(c); return p; }, [])
RECURSIVE ReduceRightUnshiftLessEq(_, _, _)
ReduceRightUnshiftLessEq(s, p, targetVersion) ==
    IF s = <<>> THEN p
    ELSE LET c == s[Len(s)]
         IN ReduceRightUnshiftLessEq(SubSeq(s, 1, Len(s) - 1),
                IF StrLessEq(c, targetVersion) THEN <<c>> \o p ELSE p,
                targetVersion)

\* scheduleVersionNames.reduce((p, c) => { if (c <= currentVersion) p.push(c); return p; }, [])
RECURSIVE ReducePushLessEq(_, _, _)
ReducePushLessEq(s, p, currentVersion) ==
    IF s = <<>> THEN p
    ELSE ReducePushLessEq(Tail(s),
             IF StrLessEq(Head(s), currentVersion) THEN Append(p, Head(s)) ELSE p,
             currentVersion)

\* scheduleVersionNames.reduceRight((p, c) => { if (c > targetVersion) p.unshift(c); return p; }, [])
RECURSIVE ReduceRightUnshiftGreater(_, _, _)
ReduceRightUnshiftGreater(s, p, targetVersion) ==
    IF s = <<>> THEN p
    ELSE LET c == s[Len(s)]
         IN ReduceRightUnshiftGreater(SubSeq(s, 1, Len(s) - 1),
                IF StrGreater(c, targetVersion) THEN <<c>> \o p ELSE p,
                targetVersion)

\* install, lines 34-48, with c >= currentVersion in place of c > currentVersion
InstallSchedule_inclusive(src, currentVersion, targetVersion) ==
    LET availableVersions == Sort(src.versionNames)
        afterCurrent == IF currentVersion # NULL
                        THEN SelectSeq(availableVersions, LAMBDA c : ~StrLess(c, currentVersion))
                        ELSE availableVersions
    IN IF targetVersion # UNDEFINED
       THEN ReduceRightUnshiftLessEq(afterCurrent, <<>>, targetVersion)
       ELSE afterCurrent

\* scheduleVersions.reduceRight((p, c) => { if (c <= targetVersion) p.push(c); return p; }, [])
RECURSIVE ReduceRightPushLessEq(_, _, _)
ReduceRightPushLessEq(s, p, targetVersion) ==
    IF s = <<>> THEN p
    ELSE LET c == s[Len(s)]
         IN ReduceRightPushLessEq(SubSeq(s, 1, Len(s) - 1),
                IF StrLessEq(c, targetVersion) THEN Append(p, c) ELSE p,
                targetVersion)

\* install, lines 34-48, with push in place of unshift in the reduceRight
InstallSchedule_pushRight(src, currentVersion, targetVersion) ==
    LET availableVersions == Sort(src.versionNames)
        afterCurrent == IF currentVersion # NULL
                        THEN ReducePushGreater(availableVersions, <<>>, currentVersion)
                        ELSE availableVersions
    IN IF targetVersion # UNDEFINED
       THEN ReduceRightPushLessEq(afterCurrent, <<>>, targetVersion)
       ELSE afterCurrent

\* install, lines 34-48
InstallSchedule(src, currentVersion, targetVersion) ==
    LET availableVersions == Sort(src.versionNames)
        afterCurrent == IF currentVersion # NULL
                        THEN ReducePushGreater(availableVersions, <<>>, currentVersion)
                        ELSE availableVersions
    IN IF targetVersion # UNDEFINED
       THEN ReduceRightUnshiftLessEq(afterCurrent, <<>>, targetVersion)
       ELSE afterCurrent

\* rollback, lines 101-116, without the reverse()
RollbackSchedule_ascending(src, currentVersion, targetVersion) ==
    LET availableVersions == Sort(src.versionNames)
        uptoCurrent == IF currentVersion # NULL
                       THEN ReducePushLessEq(availableVersions, <<>>, currentVersion)
                       ELSE availableVersions
    IN IF targetVersion # UNDEFINED
       THEN ReduceRightUnshiftGreater(uptoCurrent, <<>>, targetVersion)
       ELSE uptoCurrent

\* rollback, lines 101-116
RollbackSchedule(src, currentVersion, targetVersion) ==
    LET availableVersions == Reverse(Sort(src.versionNames))
        uptoCurrent == IF currentVersion # NULL
                       THEN ReducePushLessEq(availableVersions, <<>>, currentVersion)
                       ELSE availableVersions
    IN IF targetVersion # UNDEFINED
       THEN ReduceRightUnshiftGreater(uptoCurrent, <<>>, targetVersion)
       ELSE uptoCurrent

-----------------------------------------------------------------------------
(* Log entries: a message is a sequence of tokens, a literal text or a program string *)

Lit(text) == [k |-> text, n |-> <<>>]
Str(codeUnits) == [k |-> "", n |-> codeUnits]
EOL == Lit("EOL")

\* the text MigrationLogger puts before the message, per severity
LevelTag(level) ==
    CASE level = "trace" -> "[TRACE] "
      [] level = "debug" -> "[DEBUG] "
      [] level = "info" -> "[INFO] "
      [] level = "warn" -> "[WARN] "
      [] level = "error" -> "[ERROR] "
      [] level = "fatal" -> "[FATAL]"

\* MigrationLogger.trace/debug/info/warn/error/fatal: what is pushed to _lines
CaptureLine(level, message) == <<Lit(LevelTag(level))>> \o message

\* what the wrapped logger receives
Entry(loggerName, level, message) == [logger |-> loggerName, level |-> level, message |-> message]

\* Array.prototype.join(EOL)
RECURSIVE Join(_)
Join(ls) ==
    IF ls = <<>> THEN <<>>
    ELSE IF Len(ls) = 1 THEN ls[1]
    ELSE ls[1] \o <<EOL>> \o Join(Tail(ls))

\* MigrationLogger.flush(): the text returned; _lines is emptied by the caller of this operator
flush(ls) == Join(ls)

MsgExecuteSql(script) == <<Lit("Execute SQL script: "), Str(script.name)>>
MsgExecuteJs(script) == <<Lit("Execute JS script: "), Str(script.name)>>
MsgContent(content) == <<EOL, Str(content)>>
MsgSkipScript(version, script) ==
    <<Lit("Skip script '"), Str(version), Lit(":"), Str(script.name),
      Lit("' due unknown kind of script")>>
MsgSkipRollback(version) ==
    <<Lit("Skip rollback for version '"), Str(version),
      Lit("' due this does not present inside database.")>>

\* the entries logged for one script before it is submitted (install 64-85, rollback 129-150,
\* _executeMigrationSql 205)
ScriptMessages(version, script) ==
    CASE script.kind = "SQL" ->
            << <<"info", MsgExecuteSql(script)>>, <<"trace", MsgContent(script.content)>>,
               <<"trace", MsgContent(script.content)>> >>
      [] script.kind = "JAVASCRIPT" ->
            << <<"info", MsgExecuteJs(script)>>, <<"trace", MsgContent(script.content)>> >>
      [] OTHER -> << <<"warn", MsgSkipScript(version, script)>> >>

-----------------------------------------------------------------------------
(* The database and the dialect hooks, as the engine relies on them *)

RECURSIVE MaxOf(_)
MaxOf(S) ==
    LET x == CHOOSE y \in S : TRUE
    IN IF S = {x} THEN x
       ELSE LET m == MaxOf(S \ {x}) IN IF StrLess(m, x) THEN x ELSE m

\* getCurrentVersion: MAX(version) of the version table, null without table or rows
getCurrentVersion(d) ==
    IF ~d.tableExists \/ DOMAIN d.logs = {} THEN NULL ELSE MaxOf(DOMAIN d.logs)

\* _isVersionLogExist inside the transaction t
isVersionLogExist(t, version) == version \in DOMAIN t.logs

\* _insertVersionLog inside the transaction t
insertVersionLog(t, version, logText) ==
    [t EXCEPT !.logs = [v \in DOMAIN t.logs \cup {version} |->
                            IF v = version THEN logText ELSE t.logs[v]]]

\* _removeVersionLog inside the transaction t
removeVersionLog(t, version) ==
    [t EXCEPT !.logs = [v \in DOMAIN t.logs \ {version} |-> t.logs[v]]]

\* usingProviderWithTransaction, on entry: the transaction sees the committed database
BeginTransaction(d) ==
    [open |-> TRUE, base |-> d, tableExists |-> d.tableExists, logs |-> d.logs, effects |-> d.effects]

\* usingProviderWithTransaction, worker returned normally: what the commit leaves in the database
CommittedDb(t) == [tableExists |-> t.tableExists, logs |-> t.logs, effects |-> t.effects]

NoTransaction(d) ==
    [open |-> FALSE, base |-> d, tableExists |-> d.tableExists, logs |-> d.logs, effects |-> d.effects]

\* what a statement or an embedded script leaves behind when it completes
Effect(version, direction, scriptName) == [v |-> version, d |-> direction, s |-> scriptName]

Ev(e, v, s) == [e |-> e, v |-> v, s |-> s]

\* what a hook, a provider acquisition or a statement rejects with: every one of them is handed
\* the cancellation token and checks it before it blocks
Rejection == IF cancellationToken THEN "CancelledError" ELSE "Error"

\* what a script that was already running may reject with
SettleRejections == IF cancellationToken THEN {"CancelledError", "Error"} ELSE {"Error"}

NoCall ==
    [op |-> "none", targetVersion |-> UNDEFINED, currentVersion |-> NULL, schedule |-> <<>>,
     vi |-> 1, version |-> NULL, names |-> <<>>, si |-> 1, cancelled |-> FALSE]

-----------------------------------------------------------------------------
(* Initial states: sources loaded from a directory of at most MaxVersions versions, and a
   database that holds at most MaxLogged version rows from earlier use *)

\* a host without files, no MigrationSources operation running
NoFiles == [p \in {} |-> <<>>]
NoJob ==
    [op |-> "none", pc |-> "done", outcome |-> "none", loaded |-> FALSE,
     uri |-> [protocol |-> "", pathname |-> <<>>], dir |-> <<>>,
     listVersions |-> <<>>, vi |-> 1, direction |-> <<>>, migrationFiles |-> <<>>, fi |-> 1,
     installBundleItems |-> <<>>, rollbackBundleItems |-> <<>>, migrationBundles |-> <<>>,
     io |-> <<>>, fn |-> "", value |-> MigrationSources(<<>>), calls |-> <<>>, paramName |-> "",
     cancelled |-> FALSE]

InitialDbs ==
    {[tableExists |-> FALSE, logs |-> [v \in {} |-> <<>>], effects |-> {}]}
    \cup {[tableExists |-> TRUE, logs |-> [v \in L |-> <<>>], effects |-> {}] :
             L \in {X \in SUBSET VersionUniverse : Cardinality(X) <= MaxLogged}}

InitialSources ==
    UNION {{LoadedSources(o) : o \in Orderings(S)} :
              S \in {X \in SUBSET VersionUniverse : Cardinality(X) <= MaxVersions}}

Init ==
    /\ sources \in InitialSources
    /\ db \in InitialDbs
    /\ budget = 1
    /\ pc = "idle"
    /\ call = NoCall
    /\ tx = NoTransaction(db)
    /\ scopes = 0
    /\ inflight = {}
    /\ lines = <<>>
    /\ wraplog = <<>>
    /\ events = <<>>
    /\ result = "none"
    /\ cancellationToken = FALSE
    /\ error = "none"
    /\ fs = NoFiles
    /\ job = NoJob

Targets == VersionUniverse \cup {UNDEFINED}

\* the host requests cancellation through the token's source, before or during an invocation
Cancel ==
    /\ ~cancellationToken
    /\ result \in {"none", "running"}
    /\ cancellationToken' = TRUE
    /\ UNCHANGED <<sources, db, budget, pc, call, tx, scopes, inflight, lines, wraplog, events,
                   result, error, fs, job>>

-----------------------------------------------------------------------------
(* Pieces shared by the steps of install and rollback *)

Log(loggerName, messages) ==
    wraplog' = wraplog \o [i \in 1..Len(messages) |-> Entry(loggerName, messages[i][1], messages[i][2])]

Capture(messages) ==
    lines' = lines \o [i \in 1..Len(messages) |-> CaptureLine(messages[i][1], messages[i][2])]

\* usingProviderWithTransaction, worker rejected: rollback, then dispose
AbortTransaction ==
    /\ tx' = [tx EXCEPT !.open = FALSE]
    /\ scopes' = scopes - 1
    /\ inflight' = {}
    /\ db' = db

\* install with the rejection of a version's scope caught inside the for loop
InstallThrow_continue ==
    /\ pc' = "i_loop"
    /\ call' = [call EXCEPT !.vi = @ + 1]
    /\ result' = result

\* install 56-57, 91: the awaited scope rejects, the for loop is left, install rejects
InstallThrow ==
    /\ pc' = "idle"
    /\ call' = call
    /\ result' = "failed"

\* rollback 118-119, 155: the awaited scope rejects, the for loop is left, rollback rejects
RollbackThrow ==
    /\ pc' = "idle"
    /\ call' = call
    /\ result' = "failed"

\* [...versionBundle.installScriptNames].sort()
InstallScriptNames(bundle) == Sort(bundle.installScriptNames)

\* rollback 126 without the reverse()
RollbackScriptNames_ascending(bundle) == Sort(bundle.rollbackScriptNames)

\* [...versionBundle.rollbackScriptNames].sort().reverse()
RollbackScriptNames(bundle) == Reverse(Sort(bundle.rollbackScriptNames))

-----------------------------------------------------------------------------
(* MigrationManager.install *)

\* install 32-48: read the current version with the hook given the token, compute the schedule
InstallGetCurrentVersion(targetVersion, token) ==
    /\ pc = "idle"
    /\ budget > 0
    /\ budget' = budget - 1
    /\ UNCHANGED <<cancellationToken, fs, job, sources, db, tx, scopes, inflight, lines, wraplog>>
    /\ \/ LET currentVersion == getCurrentVersion(db)
          IN /\ ~token
             /\ call' = [NoCall EXCEPT !.op = "install",
                                       !.targetVersion = targetVersion,
                                       !.currentVersion = currentVersion,
                                       !.schedule = InstallSchedule(sources, currentVersion, targetVersion),
                                       !.cancelled = cancellationToken]
             /\ pc' = "i_usingProvider"
             /\ result' = "running"
             /\ error' = "none"
             /\ events' = <<Ev("getCurrentVersion", currentVersion, <<>>)>>
       \/ /\ call' = [NoCall EXCEPT !.op = "install", !.targetVersion = targetVersion,
                                    !.cancelled = cancellationToken]
          /\ pc' = "idle"
          /\ result' = "failed"
          /\ error' = IF token THEN "CancelledError" ELSE "Error"
          /\ events' = <<Ev("fail", NULL, <<>>)>>

\* install 32 with a token of its own, never cancelled, handed to getCurrentVersion
Install_ownToken(targetVersion) == InstallGetCurrentVersion(targetVersion, FALSE)

\* install 32: the caller's token is handed to getCurrentVersion
Install(targetVersion) == InstallGetCurrentVersion(targetVersion, cancellationToken)

\* install 50: usingProvider acquires a provider
InstallUsingProvider ==
    /\ pc = "i_usingProvider"
    /\ UNCHANGED <<cancellationToken, fs, job, sources, db, budget, tx, inflight, lines, wraplog>>
    /\ \/ /\ ~cancellationToken
          /\ scopes' = scopes + 1
          /\ pc' = "i_isVersionTableExist"
          /\ events' = Append(events, Ev("open", NULL, <<>>))
          /\ UNCHANGED <<call, result, error>>
       \/ /\ events' = Append(events, Ev("fail", NULL, <<>>))
          /\ InstallThrow
          /\ error' = Rejection
          /\ UNCHANGED scopes

\* install 51-53 without the call of _createVersionTable
InstallIsVersionTableExist_only ==
    /\ pc = "i_isVersionTableExist"
    /\ ~cancellationToken
    /\ pc' = "i_release"
    /\ events' = Append(events, Ev("isVersionTableExist", NULL, <<>>))
    /\ UNCHANGED <<cancellationToken, fs, job, sources, db, budget, tx, inflight, lines, wraplog,
                   call, scopes, result, error>>

\* install 51: _isVersionTableExist
InstallIsVersionTableExist ==
    /\ pc = "i_isVersionTableExist"
    /\ UNCHANGED <<cancellationToken, fs, job, sources, db, budget, tx, inflight, lines, wraplog>>
    /\ \/ /\ ~cancellationToken
          /\ pc' = IF db.tableExists THEN "i_release" ELSE "i_createVersionTable"
          /\ events' = Append(events, Ev("isVersionTableExist", NULL, <<>>))
          /\ UNCHANGED <<call, scopes, result, error>>
       \/ /\ scopes' = scopes - 1
          /\ events' = events \o <<Ev("fail", NULL, <<>>), Ev("close", NULL, <<>>)>>
          /\ InstallThrow
          /\ error' = Rejection

\* install 52: _createVersionTable
InstallCreateVersionTable ==
    /\ pc = "i_createVersionTable"
    /\ UNCHANGED <<cancellationToken, fs, job, sources, budget, inflight, lines, wraplog>>
    /\ \/ /\ ~cancellationToken
          /\ db' = [db EXCEPT !.tableExists = TRUE]
          /\ tx' = NoTransaction(db')
          /\ pc' = "i_release"
          /\ events' = Append(events, Ev("createVersionTable", NULL, <<>>))
          /\ UNCHANGED <<call, scopes, result, error>>
       \/ /\ scopes' = scopes - 1
          /\ events' = events \o <<Ev("fail", NULL, <<>>), Ev("close", NULL, <<>>)>>
          /\ InstallThrow
          /\ error' = Rejection
          /\ UNCHANGED <<db, tx>>

\* install 50-54 with usingProvider not awaited: the version loop starts while the provider
\* of the table check is still held
InstallRelease_notAwaited ==
    /\ pc = "i_release"
    /\ pc' = "i_loop"
    /\ UNCHANGED <<cancellationToken, fs, job, sources, db, budget, call, tx, inflight, lines,
                   wraplog, result, error, scopes, events>>

\* install 54: the worker returned, usingProvider disposes the provider
InstallRelease ==
    /\ pc = "i_release"
    /\ scopes' = scopes - 1
    /\ pc' = "i_loop"
    /\ events' = Append(events, Ev("close", NULL, <<>>))
    /\ UNCHANGED <<cancellationToken, fs, job, sources, db, budget, call, tx, inflight, lines, wraplog, result, error>>

\* install 56-61 with one MigrationLogger kept by the manager instead of a new one per version
InstallNextVersion_sharedLogger ==
    /\ pc = "i_loop"
    /\ call.vi <= Len(call.schedule)
    /\ ~cancellationToken
    /\ LET version == call.schedule[call.vi]
       IN /\ tx' = BeginTransaction(db)
          /\ scopes' = scopes + 1
          /\ call' = [call EXCEPT !.version = version,
                                  !.names = InstallScriptNames(getVersionBundle(sources, version)),
                                  !.si = 1]
          /\ events' = Append(events, Ev("begin", version, <<>>))
          /\ pc' = "i_scripts"
    /\ UNCHANGED <<cancellationToken, fs, job, sources, db, budget, inflight, lines, wraplog,
                   result, error>>

\* install 56-61: next scheduled version, its transaction scope, logger, bundle and script names
InstallNextVersion ==
    /\ pc = "i_loop"
    /\ call.vi <= Len(call.schedule)
    /\ UNCHANGED <<cancellationToken, fs, job, sources, db, budget, inflight, wraplog>>
    /\ \/ LET version == call.schedule[call.vi]
              versionBundle == getVersionBundle(sources, version)
          IN /\ ~cancellationToken
             /\ tx' = BeginTransaction(db)
             /\ scopes' = scopes + 1
             /\ lines' = <<>>
             /\ call' = [call EXCEPT !.version = version,
                                     !.names = InstallScriptNames(versionBundle),
                                     !.si = 1]
             /\ events' = Append(events, Ev("begin", version, <<>>))
             /\ pc' = "i_scripts"
             /\ UNCHANGED <<result, error>>
       \/ /\ events' = Append(events, Ev("fail", NULL, <<>>))
          /\ call' = [call EXCEPT !.version = NULL]
          /\ pc' = "idle"
          /\ result' = "failed"
          /\ error' = Rejection
          /\ UNCHANGED <<tx, scopes, lines>>

\* install 92: the schedule is exhausted
InstallReturn ==
    /\ pc = "i_loop"
    /\ call.vi > Len(call.schedule)
    /\ pc' = "idle"
    /\ result' = "ok"
    /\ UNCHANGED <<cancellationToken, fs, job, sources, db, budget, call, tx, scopes, inflight, lines, wraplog, events, error>>

\* install 63-85 with the default case of the switch running the file as SQL
InstallDispatch_unknownAsSql ==
    /\ pc = "i_scripts"
    /\ call.si <= Len(call.names)
    /\ LET version == call.version
           script == getInstallScript(getVersionBundle(sources, version), call.names[call.si])
           messages == ScriptMessages(version, script)
       IN /\ Log(version, messages)
          /\ Capture(messages)
          /\ inflight' = inflight \cup {Effect(version, DirInstall, script.name)}
          /\ events' = Append(events, Ev("start", version, script.name))
    /\ call' = [call EXCEPT !.si = @ + 1]
    /\ UNCHANGED <<cancellationToken, fs, job, sources, budget, db, pc, tx, scopes, result, error>>

\* install 63-85: one turn of the script loop, the dispatch on the script's kind
InstallDispatch ==
    /\ pc = "i_scripts"
    /\ call.si <= Len(call.names)
    /\ LET version == call.version
           script == getInstallScript(getVersionBundle(sources, version), call.names[call.si])
           messages == ScriptMessages(version, script)
       IN /\ Log(version, messages)
          /\ Capture(messages)
          /\ CASE script.kind = "SQL" /\ cancellationToken ->
                     /\ AbortTransaction
                     /\ events' = events \o <<Ev("fail", version, script.name),
                                               Ev("abort", version, <<>>)>>
                     /\ InstallThrow
                     /\ error' = Rejection
               [] script.kind \in {"SQL", "JAVASCRIPT"} /\ ~(script.kind = "SQL" /\ cancellationToken) ->
                     /\ inflight' = inflight \cup {Effect(version, DirInstall, script.name)}
                     /\ events' = Append(events, Ev("start", version, script.name))
                     /\ call' = [call EXCEPT !.si = @ + 1]
                     /\ UNCHANGED <<db, pc, tx, scopes, result, error>>
               [] OTHER ->
                     /\ inflight' = inflight
                     /\ events' = Append(events, Ev("unknown", version, script.name))
                     /\ call' = [call EXCEPT !.si = @ + 1]
                     /\ UNCHANGED <<db, pc, tx, scopes, result, error>>
    /\ UNCHANGED <<cancellationToken, fs, job, sources, budget>>

\* install 62-85 without awaiting the script submitted before
InstallScript_noAwait == InstallDispatch

\* install 62-85: the next install script, once the one before has been awaited
InstallScript ==
    /\ inflight = {}
    /\ InstallDispatch

\* install 68, 74 with the rejection of the script caught and dropped: the loop goes on
InstallScriptSettles_caught ==
    /\ pc = "i_scripts"
    /\ \E f \in inflight :
         /\ inflight' = inflight \ {f}
         /\ \/ /\ tx' = [tx EXCEPT !.effects = @ \cup {f}]
               /\ events' = Append(events, Ev("done", f.v, f.s))
            \/ /\ tx' = tx
               /\ events' = Append(events, Ev("fail", f.v, f.s))
    /\ UNCHANGED <<cancellationToken, fs, job, sources, db, budget, pc, call, scopes, lines,
                   wraplog, result, error>>

\* install 68, 74: the awaited statement or embedded script settles
InstallScriptSettles ==
    /\ pc = "i_scripts"
    /\ \E f \in inflight :
         \/ /\ inflight' = inflight \ {f}
            /\ tx' = [tx EXCEPT !.effects = @ \cup {f}]
            /\ events' = Append(events, Ev("done", f.v, f.s))
            /\ UNCHANGED <<cancellationToken, fs, job, sources, db, budget, pc, call, scopes, lines, wraplog, result, error>>
         \/ /\ AbortTransaction
            /\ events' = events \o <<Ev("fail", f.v, f.s), Ev("abort", f.v, <<>>)>>
            /\ InstallThrow
            /\ error' \in SettleRejections
            /\ UNCHANGED <<cancellationToken, fs, job, sources, budget, lines, wraplog>>

\* install 88-89: flush the capture logger, await _insertVersionLog
InstallFlushAndInsert ==
    /\ pc = "i_scripts"
    /\ inflight = {}
    /\ lines' = <<>>
    /\ UNCHANGED <<cancellationToken, fs, job, sources, budget, wraplog>>
    /\ \/ /\ ~cancellationToken
          /\ call.version \notin DOMAIN tx.logs
          /\ tx' = insertVersionLog(tx, call.version, flush(lines))
          /\ pc' = "i_commit"
          /\ events' = Append(events, Ev("insertVersionLog", call.version, <<>>))
          /\ UNCHANGED <<db, call, scopes, inflight, result, error>>
       \/ /\ AbortTransaction
          /\ events' = events \o <<Ev("fail", call.version, <<>>), Ev("abort", call.version, <<>>)>>
          /\ InstallThrow
          /\ error' = Rejection

\* install 88-89 with _insertVersionLog not awaited: its rejection is lost, the worker returns
InstallInsertVersionLog_notAwaited ==
    /\ call.si > Len(call.names)
    /\ pc = "i_scripts"
    /\ inflight = {}
    /\ lines' = <<>>
    /\ pc' = "i_commit"
    /\ UNCHANGED <<cancellationToken, fs, job, sources, db, budget, call, scopes, inflight, wraplog, result, error>>
    /\ \/ /\ call.version \notin DOMAIN tx.logs
          /\ tx' = insertVersionLog(tx, call.version, flush(lines))
          /\ events' = Append(events, Ev("insertVersionLog", call.version, <<>>))
       \/ /\ tx' = tx
          /\ events' = Append(events, Ev("fail", call.version, <<>>))

\* install 88-89 placed inside the script loop: the row is written while scripts remain
InstallInsertVersionLog_early == InstallFlushAndInsert

\* install 86-89: after the script loop, flush the capture logger and insert the log row
InstallInsertVersionLog ==
    /\ call.si > Len(call.names)
    /\ InstallFlushAndInsert

\* install 90: the worker returned, the transaction commits and the provider is disposed
InstallCommit ==
    /\ pc = "i_commit"
    /\ db' = CommittedDb(tx)
    /\ tx' = NoTransaction(db')
    /\ scopes' = scopes - 1
    /\ call' = [call EXCEPT !.vi = @ + 1]
    /\ pc' = "i_loop"
    /\ events' = Append(events, Ev("commit", call.version, <<>>))
    /\ UNCHANGED <<cancellationToken, fs, job, sources, budget, inflight, lines, wraplog, result, error>>

-----------------------------------------------------------------------------
(* MigrationManager.rollback *)

\* rollback 99-116: read the current version with the hook given the token, compute the schedule
RollbackGetCurrentVersion(targetVersion, token) ==
    /\ pc = "idle"
    /\ budget > 0
    /\ budget' = budget - 1
    /\ UNCHANGED <<cancellationToken, fs, job, sources, db, tx, scopes, inflight, lines, wraplog>>
    /\ \/ LET currentVersion == getCurrentVersion(db)
          IN /\ ~token
             /\ call' = [NoCall EXCEPT !.op = "rollback",
                                       !.targetVersion = targetVersion,
                                       !.currentVersion = currentVersion,
                                       !.schedule = RollbackSchedule(sources, currentVersion, targetVersion),
                                       !.cancelled = cancellationToken]
             /\ pc' = "r_loop"
             /\ result' = "running"
             /\ error' = "none"
             /\ events' = <<Ev("getCurrentVersion", currentVersion, <<>>)>>
       \/ /\ call' = [NoCall EXCEPT !.op = "rollback", !.targetVersion = targetVersion,
                                    !.cancelled = cancellationToken]
          /\ pc' = "idle"
          /\ result' = "failed"
          /\ error' = IF token THEN "CancelledError" ELSE "Error"
          /\ events' = <<Ev("fail", NULL, <<>>)>>

\* rollback 99 with a token of its own, never cancelled, handed to getCurrentVersion
Rollback_ownToken(targetVersion) == RollbackGetCurrentVersion(targetVersion, FALSE)

\* rollback 99: the caller's token is handed to getCurrentVersion
Rollback(targetVersion) == RollbackGetCurrentVersion(targetVersion, cancellationToken)

\* rollback 118-119: next scheduled version and its transaction scope
RollbackNextVersion ==
    /\ pc = "r_loop"
    /\ call.vi <= Len(call.schedule)
    /\ UNCHANGED <<cancellationToken, fs, job, sources, db, budget, inflight, lines, wraplog>>
    /\ \/ LET versionName == call.schedule[call.vi]
          IN /\ ~cancellationToken
             /\ tx' = BeginTransaction(db)
             /\ scopes' = scopes + 1
             /\ call' = [call EXCEPT !.version = versionName, !.names = <<>>, !.si = 1]
             /\ events' = Append(events, Ev("begin", versionName, <<>>))
             /\ pc' = "r_isVersionLogExist"
             /\ UNCHANGED <<result, error>>
       \/ /\ events' = Append(events, Ev("fail", NULL, <<>>))
          /\ call' = [call EXCEPT !.version = NULL]
          /\ pc' = "idle"
          /\ result' = "failed"
          /\ error' = Rejection
          /\ UNCHANGED <<tx, scopes>>

\* rollback 156: the schedule is exhausted
RollbackReturn ==
    /\ pc = "r_loop"
    /\ call.vi > Len(call.schedule)
    /\ pc' = "idle"
    /\ result' = "ok"
    /\ UNCHANGED <<cancellationToken, fs, job, sources, db, budget, call, tx, scopes, inflight, lines, wraplog, events, error>>

\* rollback 125-126: the bundle and its rollback script names, in the order they will run
RollbackEnterScripts ==
    /\ call' = [call EXCEPT !.names = RollbackScriptNames(getVersionBundle(sources, call.version)),
                            !.si = 1]
    /\ pc' = "r_scripts"

\* rollback 120-123 without the return: the warning is logged and the scripts run all the same
RollbackSkip_fallThrough ==
    /\ Log(<<>>, << <<"warn", MsgSkipRollback(call.version)>> >>)
    /\ events' = Append(events, Ev("skip", call.version, <<>>))
    /\ RollbackEnterScripts

\* rollback 121-122: the version has no log row: warn and return from the worker
RollbackSkip ==
    /\ Log(<<>>, << <<"warn", MsgSkipRollback(call.version)>> >>)
    /\ events' = Append(events, Ev("skip", call.version, <<>>))
    /\ call' = call
    /\ pc' = "r_commit"

\* rollback 120-126: _isVersionLogExist decides between the skip and the scripts
RollbackIsVersionLogExist ==
    /\ pc = "r_isVersionLogExist"
    /\ UNCHANGED <<cancellationToken, fs, job, sources, budget, lines>>
    /\ \/ /\ ~cancellationToken
          /\ isVersionLogExist(tx, call.version)
          /\ RollbackEnterScripts
          /\ events' = Append(events, Ev("isVersionLogExist", call.version, <<>>))
          /\ UNCHANGED <<db, tx, scopes, inflight, wraplog, result, error>>
       \/ /\ ~cancellationToken
          /\ ~isVersionLogExist(tx, call.version)
          /\ RollbackSkip
          /\ UNCHANGED <<db, tx, scopes, inflight, result, error>>
       \/ /\ AbortTransaction
          /\ events' = events \o <<Ev("fail", call.version, <<>>), Ev("abort", call.version, <<>>)>>
          /\ RollbackThrow
          /\ error' = Rejection
          /\ UNCHANGED wraplog

\* rollback 128-150: one turn of the script loop, the dispatch on the script's kind
RollbackDispatch ==
    /\ pc = "r_scripts"
    /\ call.si <= Len(call.names)
    /\ LET versionName == call.version
           script == getRollbackScript(getVersionBundle(sources, versionName), call.names[call.si])
           messages == ScriptMessages(versionName, script)
       IN /\ Log(<<>>, messages)
          /\ CASE script.kind = "SQL" /\ cancellationToken ->
                     /\ AbortTransaction
                     /\ events' = events \o <<Ev("fail", versionName, script.name),
                                               Ev("abort", versionName, <<>>)>>
                     /\ RollbackThrow
                     /\ error' = Rejection
               [] script.kind \in {"SQL", "JAVASCRIPT"} /\ ~(script.kind = "SQL" /\ cancellationToken) ->
                     /\ inflight' = inflight \cup {Effect(versionName, DirRollback, script.name)}
                     /\ events' = Append(events, Ev("start", versionName, script.name))
                     /\ call' = [call EXCEPT !.si = @ + 1]
                     /\ UNCHANGED <<db, pc, tx, scopes, result, error>>
               [] OTHER ->
                     /\ inflight' = inflight
                     /\ events' = Append(events, Ev("unknown", versionName, script.name))
                     /\ call' = [call EXCEPT !.si = @ + 1]
                     /\ UNCHANGED <<db, pc, tx, scopes, result, error>>
    /\ UNCHANGED <<cancellationToken, fs, job, sources, budget, lines>>

\* rollback 127-150: the next rollback script, once the one before has been awaited
RollbackScript ==
    /\ inflight = {}
    /\ RollbackDispatch

\* rollback 133, 139: the awaited statement or embedded script settles
RollbackScriptSettles ==
    /\ pc = "r_scripts"
    /\ \E f \in inflight :
         \/ /\ inflight' = inflight \ {f}
            /\ tx' = [tx EXCEPT !.effects = @ \cup {f}]
            /\ events' = Append(events, Ev("done", f.v, f.s))
            /\ UNCHANGED <<cancellationToken, fs, job, sources, db, budget, pc, call, scopes, lines, wraplog, result, error>>
         \/ /\ AbortTransaction
            /\ events' = events \o <<Ev("fail", f.v, f.s), Ev("abort", f.v, <<>>)>>
            /\ RollbackThrow
            /\ error' \in SettleRejections
            /\ UNCHANGED <<cancellationToken, fs, job, sources, budget, lines, wraplog>>

\* rollback 153 left out: the worker returns without removing the row
RollbackRemoveVersionLog_omitted ==
    /\ pc = "r_scripts"
    /\ call.si > Len(call.names)
    /\ inflight = {}
    /\ pc' = "r_commit"
    /\ events' = events
    /\ UNCHANGED <<cancellationToken, fs, job, sources, db, budget, call, tx, scopes, inflight, lines, wraplog, result, error>>

\* rollback 151-153: after the script loop, await _removeVersionLog
RollbackRemoveVersionLog ==
    /\ pc = "r_scripts"
    /\ call.si > Len(call.names)
    /\ inflight = {}
    /\ UNCHANGED <<cancellationToken, fs, job, sources, budget, lines, wraplog>>
    /\ \/ /\ ~cancellationToken
          /\ tx' = removeVersionLog(tx, call.version)
          /\ pc' = "r_commit"
          /\ events' = Append(events, Ev("removeVersionLog", call.version, <<>>))
          /\ UNCHANGED <<db, call, scopes, inflight, result, error>>
       \/ /\ AbortTransaction
          /\ events' = events \o <<Ev("fail", call.version, <<>>), Ev("abort", call.version, <<>>)>>
          /\ RollbackThrow
          /\ error' = Rejection

\* rollback 154: the worker returned, the transaction commits and the provider is disposed
RollbackCommit ==
    /\ pc = "r_commit"
    /\ db' = CommittedDb(tx)
    /\ tx' = NoTransaction(db')
    /\ scopes' = scopes - 1
    /\ call' = [call EXCEPT !.vi = @ + 1]
    /\ pc' = "r_loop"
    /\ events' = Append(events, Ev("commit", call.version, <<>>))
    /\ UNCHANGED <<cancellationToken, fs, job, sources, budget, inflight, lines, wraplog, result, error>>

-----------------------------------------------------------------------------
(* One invocation of install or rollback on a manager built over the sources *)

Next ==
    \/ \E targetVersion \in Targets : Install(targetVersion)
    \/ InstallUsingProvider
    \/ InstallIsVersionTableExist
    \/ InstallCreateVersionTable
    \/ InstallRelease
    \/ InstallNextVersion
    \/ InstallReturn
    \/ InstallScript
    \/ InstallScriptSettles
    \/ InstallInsertVersionLog
    \/ InstallCommit
    \/ \E targetVersion \in Targets : Rollback(targetVersion)
    \/ RollbackNextVersion
    \/ RollbackReturn
    \/ RollbackIsVersionLogExist
    \/ RollbackScript
    \/ RollbackScriptSettles
    \/ RollbackRemoveVersionLog
    \/ RollbackCommit
    \/ Cancel

Spec == Init /\ [][Next]_vars

-----------------------------------------------------------------------------
(* One invocation whose awaited calls all settle: every step of install and rollback after the
   first is the continuation of an awaited hook, driver call or script, and runs once the
   promise it awaits is fulfilled or rejected. The host stays free to call or not, and to
   cancel or not. *)

Settles ==
    \/ InstallUsingProvider
    \/ InstallIsVersionTableExist
    \/ InstallCreateVersionTable
    \/ InstallRelease
    \/ InstallNextVersion
    \/ InstallReturn
    \/ InstallScript
    \/ InstallScriptSettles
    \/ InstallInsertVersionLog
    \/ InstallCommit
    \/ RollbackNextVersion
    \/ RollbackReturn
    \/ RollbackIsVersionLogExist
    \/ RollbackScript
    \/ RollbackScriptSettles
    \/ RollbackRemoveVersionLog
    \/ RollbackCommit

SettlingSpec == Init /\ [][Next]_vars /\ WF_vars(Settles)

-----------------------------------------------------------------------------
(* A manager used again after an invocation has ended: a new database, the sources of the
   directories v0001, v0002 and vXXXX, and up to MaxInvocations calls of install or rollback *)

MaxInvocations == 2

RetryInit ==
    /\ sources = LoadedSources(<<VXXXX, V0002, V0001>>)
    /\ db = [tableExists |-> FALSE, logs |-> [v \in {} |-> <<>>], effects |-> {}]
    /\ budget = MaxInvocations
    /\ pc = "idle"
    /\ call = NoCall
    /\ tx = NoTransaction(db)
    /\ scopes = 0
    /\ inflight = {}
    /\ lines = <<>>
    /\ wraplog = <<>>
    /\ events = <<>>
    /\ result = "none"
    /\ cancellationToken = FALSE
    /\ error = "none"
    /\ fs = NoFiles
    /\ job = NoJob

RetrySpec == RetryInit /\ [][Next]_vars

-----------------------------------------------------------------------------
(* Error classes: what a caller can tell apart with instanceof *)

\* the class each error class of the program extends; the classes of @zxteam/errors and
\* @zxteam/contract extend Error
Extends(class) ==
    CASE class = "MigrationSources.WrongMigrationDataError" -> "InvalidOperationError"
      [] class = "NotSupportedUrlSchemaError" -> "InvalidOperationError"
      [] class = "MigrationManager.WrongMigrationDataError" -> "MigrationManager.MigrationError"
      [] class = "MigrationManager.MigrationError" -> "InnerError"
      [] OTHER -> "Error"

\* error instanceof class, for an error constructed as new thrown(...)
RECURSIVE InstanceOf(_, _)
InstanceOf(thrown, class) ==
    IF thrown = class THEN TRUE
    ELSE IF thrown = "Error" THEN FALSE
    ELSE InstanceOf(Extends(thrown), class)

-----------------------------------------------------------------------------
(* The host's file system: a function from the paths that exist to what is there *)

\* "/d", an existing directory to save into; "/x", a path at which nothing exists
DestDir == <<47, 100>>
MissingDir == <<47, 120>>
\* "README", "sub"
README == <<82, 69, 65, 68, 77, 69>>
Sub == <<115, 117, 98>>

Directory == [dir |-> TRUE, content |-> <<>>]
File(content) == [dir |-> FALSE, content |-> content]

\* path.dirname
Dirname(p) == SubSeq(p, 1, LastIndexOf(p, 47, Len(p)) - 1)

\* fs.exists
exists(f, p) == p \in DOMAIN f

\* the names fs.readdir finds in directory p
Entries(f, p) == {Basename(q) : q \in {x \in DOMAIN f : Dirname(x) = p}}

\* fs.mkdir and fs.writeFile, when they succeed
mkdir(f, p) == [q \in DOMAIN f \cup {p} |-> IF q = p THEN Directory ELSE f[q]]
writeFile(f, p, content) == [q \in DOMAIN f \cup {p} |-> IF q = p THEN File(content) ELSE f[q]]

\* fs.mkdir rejects with EEXIST or ENOENT, fs.writeFile with EISDIR or ENOENT
CanMkdir(f, p) == ~exists(f, p) /\ exists(f, Dirname(p)) /\ f[Dirname(p)].dir
CanWriteFile(f, p) == exists(f, Dirname(p)) /\ f[Dirname(p)].dir /\ (exists(f, p) => ~f[p].dir)

\* the part of the file system below directory p, with paths relative to p
Below(f, p) ==
    LET inside == {q \in DOMAIN f : Len(q) > Len(p) + 1 /\ SubSeq(q, 1, Len(p) + 1) = p \o <<47>>}
    IN {[path |-> SubSeq(q, Len(p) + 2, Len(q)), dir |-> f[q].dir, content |-> f[q].content] :
           q \in inside}

-----------------------------------------------------------------------------
(* Migration directories the host may hold under RootDir *)

\* largest number of version directories in the migration directory on disk
MaxTreeVersions == 2

VersionDir(root, v) == PathJoin(root, v)
DirectionDir(root, v, direction) == PathJoin(PathJoin(root, v), direction)

\* what may be in the tree besides scripts: nothing, a regular file beside the version
\* directories, or a directory where a script is expected
Strays == {"none", "rootFile", "nestedDir"}

\* the tree with the version directories S; with bare, a direction without scripts has no
\* directory
TreePaths(S, bare, stray) ==
    LET dirs == {RootDir} \cup {VersionDir(RootDir, v) : v \in S}
                \cup {DirectionDir(RootDir, x[1], x[2]) :
                         x \in {y \in S \X Directions : ~(bare /\ TreeFiles(y[1], y[2]) = <<>>)}}
        files == UNION {{PathJoin(DirectionDir(RootDir, v, d), TreeFiles(v, d)[i]) :
                            i \in 1..Len(TreeFiles(v, d))} : v \in S, d \in Directions}
        nested == IF stray = "nestedDir"
                  THEN {PathJoin(DirectionDir(RootDir, v, DirInstall), Sub) : v \in S}
                  ELSE {}
        beside == IF stray = "rootFile" THEN {PathJoin(RootDir, README)} ELSE {}
    IN [dirs |-> dirs \cup {Dirname(q) : q \in nested} \cup nested, files |-> files \cup beside]

Tree(S, bare, stray, withDest) ==
    LET t == TreePaths(S, bare, stray)
        dest == IF withDest THEN {DestDir} ELSE {}
    IN [p \in t.dirs \cup t.files \cup dest |->
           IF p \in t.files THEN File(SubSeq(p, Len(RootDir) + 2, Len(p))) ELSE Directory]

InitialTrees ==
    {Tree(S, bare, stray, withDest) :
        S \in {X \in SUBSET VersionUniverse : Cardinality(X) <= MaxTreeVersions},
        bare \in BOOLEAN, stray \in Strays, withDest \in BOOLEAN}

-----------------------------------------------------------------------------
(* MigrationSources.load and MigrationSources.loadFromFilesystem, one awaited call per step *)

\* largest number of MigrationSources operations the host starts
MaxOperations == 2

\* the variables of the manager, which the operations of MigrationSources leave alone
manager == <<db, pc, call, tx, scopes, inflight, lines, wraplog, events, result>>

\* one entry of job.io: a file system call, or a throwIfCancellationRequested that passed
Io(op, path) == [op |-> op, path |-> path]

FileUrl(path) == [protocol |-> "file:", pathname |-> path]
TarUrl(protocol) == [protocol |-> protocol, pathname |-> RootDir]
SourceUris ==
    {FileUrl(RootDir), FileUrl(MissingDir), TarUrl("http+tar+gz:"), TarUrl("https+tar+gz:"),
     TarUrl("ftp:")}

\* a new operation starts with fresh locals; whether the host holds a loaded MigrationSources
\* stays what it was; cancelled notes whether cancellation was requested before the call
StartJob(op, pcStart, dir) ==
    [NoJob EXCEPT !.op = op, !.pc = pcStart, !.dir = dir, !.outcome = "running",
                  !.loaded = job.loaded, !.cancelled = cancellationToken]

\* the operation rejects with an error of the given class
JobThrow(j, class) ==
    /\ job' = [j EXCEPT !.pc = "done", !.outcome = "failed"]
    /\ error' = class

\* MigrationSources.load 811-824: the switch on sourceUri.protocol
load(sourceUri) ==
    /\ job.pc = "done"
    /\ budget > 0
    /\ budget' = budget - 1
    /\ UNCHANGED <<manager, fs, sources, cancellationToken>>
    /\ CASE sourceUri.protocol = "file:" ->
                /\ job' = [StartJob("load", "l_exists", sourceUri.pathname) EXCEPT !.uri = sourceUri]
                /\ error' = "none"
         [] sourceUri.protocol = "http+tar+gz:" ->
                JobThrow([StartJob("load", "done", <<>>) EXCEPT !.uri = sourceUri],
                         "InvalidOperationError")
         [] sourceUri.protocol = "https+tar+gz:" ->
                JobThrow([StartJob("load", "done", <<>>) EXCEPT !.uri = sourceUri],
                         "InvalidOperationError")
         [] OTHER ->
                JobThrow([StartJob("load", "done", <<>>) EXCEPT !.uri = sourceUri],
                         "NotSupportedUrlSchemaError")

\* loadFromFilesystem 829-831
LoadExists ==
    /\ job.pc = "l_exists"
    /\ LET j == [job EXCEPT !.io = Append(@, Io("exists", job.dir))]
       IN IF exists(fs, job.dir)
          THEN job' = [j EXCEPT !.pc = "l_readdir"] /\ error' = error
          ELSE JobThrow(j, "MigrationSources.WrongMigrationDataError")
    /\ UNCHANGED <<manager, budget, fs, sources, cancellationToken>>

\* loadFromFilesystem 835-837 without the filter isDirectory()
LoadReaddir_unfiltered ==
    /\ job.pc = "l_readdir"
    /\ \E listVersions \in Orderings(Entries(fs, job.dir)) :
          job' = [job EXCEPT !.listVersions = listVersions, !.vi = 1, !.pc = "l_version",
                             !.io = Append(@, Io("readdir", job.dir))]
    /\ UNCHANGED <<manager, budget, fs, sources, cancellationToken, error>>

\* loadFromFilesystem 835-837: the directories among the children, in the order the host lists them
LoadReaddir ==
    /\ job.pc = "l_readdir"
    /\ \E listVersions \in Orderings({n \in Entries(fs, job.dir) : fs[PathJoin(job.dir, n)].dir}) :
          job' = [job EXCEPT !.listVersions = listVersions, !.vi = 1, !.pc = "l_version",
                             !.io = Append(@, Io("readdir", job.dir))]
    /\ UNCHANGED <<manager, budget, fs, sources, cancellationToken, error>>

\* loadFromFilesystem 880-882: the bundle of the version is pushed, the for loop goes on
PushVersionBundle(j) ==
    [j EXCEPT !.migrationBundles =
                  Append(@, VersionBundle(j.listVersions[j.vi], j.installBundleItems,
                                          j.rollbackBundleItems)),
              !.vi = @ + 1,
              !.pc = "l_version"]

\* where loadFromFilesystem goes when the files of a direction are exhausted
AfterFiles(j) ==
    IF j.direction = DirInstall THEN [j EXCEPT !.pc = "l_existsRollback"] ELSE PushVersionBundle(j)

\* loadFromFilesystem 841-851: next version directory, cancellation check, exists(install)
LoadVersion ==
    /\ job.pc = "l_version"
    /\ job.vi <= Len(job.listVersions)
    /\ IF cancellationToken
       THEN JobThrow(job, "CancelledError")
       ELSE LET installDirectory == DirectionDir(job.dir, job.listVersions[job.vi], DirInstall)
                j == [job EXCEPT !.io = @ \o <<Io("check", <<>>), Io("exists", installDirectory)>>,
                                 !.installBundleItems = <<>>,
                                 !.rollbackBundleItems = <<>>,
                                 !.direction = DirInstall]
            IN /\ job' = IF exists(fs, installDirectory)
                         THEN [j EXCEPT !.pc = "l_readdirDirection"]
                         ELSE [j EXCEPT !.pc = "l_existsRollback"]
               /\ error' = error
    /\ UNCHANGED <<manager, budget, fs, sources, cancellationToken>>

\* loadFromFilesystem 852-853, 866-867: every entry of the direction's directory, as listed
LoadReaddirDirection ==
    /\ job.pc = "l_readdirDirection"
    /\ LET directory == DirectionDir(job.dir, job.listVersions[job.vi], job.direction)
       IN \E migrationFiles \in Orderings(Entries(fs, directory)) :
             LET j == [job EXCEPT !.migrationFiles = migrationFiles, !.fi = 1, !.pc = "l_file",
                                  !.io = Append(@, Io("readdir", directory))]
             IN job' = IF migrationFiles = <<>> THEN AfterFiles(j) ELSE j
    /\ UNCHANGED <<manager, budget, fs, sources, cancellationToken, error>>

\* loadFromFilesystem 854-862, 868-877: cancellation check, readFile, push the Script
LoadFile ==
    /\ job.pc = "l_file"
    /\ IF cancellationToken
       THEN JobThrow(job, "CancelledError")
       ELSE LET migrationFile == job.migrationFiles[job.fi]
                scriptFile == PathJoin(DirectionDir(job.dir, job.listVersions[job.vi], job.direction),
                                       migrationFile)
                j == [job EXCEPT !.io = @ \o <<Io("check", <<>>), Io("readFile", scriptFile)>>]
            IN IF fs[scriptFile].dir
               THEN JobThrow(j, "Error")
               ELSE LET script == Script(migrationFile, resolveScriptKindByExtension(scriptFile),
                                         scriptFile, fs[scriptFile].content)
                        pushed == IF j.direction = DirInstall
                                  THEN [j EXCEPT !.installBundleItems = Append(@, script), !.fi = @ + 1]
                                  ELSE [j EXCEPT !.rollbackBundleItems = Append(@, script), !.fi = @ + 1]
                    IN /\ job' = IF pushed.fi > Len(pushed.migrationFiles)
                                 THEN AfterFiles(pushed) ELSE pushed
                       /\ error' = error
    /\ UNCHANGED <<manager, budget, fs, sources, cancellationToken>>

\* loadFromFilesystem 865: exists(rollback)
LoadExistsRollback ==
    /\ job.pc = "l_existsRollback"
    /\ LET rollbackDirectory == DirectionDir(job.dir, job.listVersions[job.vi], DirRollback)
           j == [job EXCEPT !.io = Append(@, Io("exists", rollbackDirectory)),
                            !.direction = DirRollback]
       IN job' = IF exists(fs, rollbackDirectory)
                 THEN [j EXCEPT !.pc = "l_readdirDirection"]
                 ELSE PushVersionBundle(j)
    /\ UNCHANGED <<manager, budget, fs, sources, cancellationToken, error>>

\* loadFromFilesystem 886: return new MigrationSources(migrationBundles)
LoadReturn ==
    /\ job.pc = "l_version"
    /\ job.vi > Len(job.listVersions)
    /\ sources' = MigrationSources(job.migrationBundles)
    /\ job' = [job EXCEPT !.pc = "done", !.outcome = "ok", !.loaded = TRUE]
    /\ UNCHANGED <<manager, budget, fs, cancellationToken, error>>

-----------------------------------------------------------------------------
(* MigrationSources.map *)

\* the callbacks the host maps with: content unchanged, content behind a "--" comment mark,
\* content replaced by "<versionName>:<direction>:<itemName>"
Mappers == {"same", "comment", "info"}

callbackfn(fn, content, info) ==
    CASE fn = "same" -> content
      [] fn = "comment" -> <<45, 45>> \o content
      [] OTHER -> info.versionName \o <<58>> \o info.direction \o <<58>> \o info.itemName

\* one invocation of the callback, as the callback sees it
Invocation(content, versionName, direction, itemName) ==
    [content |-> content,
     info |-> [versionName |-> versionName, direction |-> direction, itemName |-> itemName]]

RECURSIVE Flatten(_)
Flatten(ss) == IF ss = <<>> THEN <<>> ELSE Head(ss) \o Flatten(Tail(ss))

\* VersionBundle._map that pushes the item it was given
_map_sameItem(itemNames, itemsMap, fn, versionName, direction) ==
    [i \in 1..Len(itemNames) |->
        LET item == itemsMap[itemNames[i]]
            call_ == Invocation(item.content, versionName, direction, item.name)
        IN [script |-> item, invocation |-> call_]]

\* VersionBundle._map 1021-1033 under the callbacks of MigrationSources.map 907-913 and
\* VersionBundle.map 1010-1015: per item name, in order, the new Script and the invocation made
_map(itemNames, itemsMap, fn, versionName, direction) ==
    [i \in 1..Len(itemNames) |->
        LET item == itemsMap[itemNames[i]]
            call_ == Invocation(item.content, versionName, direction, item.name)
            newContent == callbackfn(fn, call_.content, call_.info)
        IN [script |-> Script(item.name, item.kind, item.file, newContent), invocation |-> call_]]

Scripts(mapped) == [i \in 1..Len(mapped) |-> mapped[i].script]
Invocations(mapped) == [i \in 1..Len(mapped) |-> mapped[i].invocation]

\* VersionBundle.map with the rollback scripts mapped before the install scripts
VersionBundleMap_rollbackFirst(bundle, fn) ==
    LET rollbackScripts == _map(bundle.rollbackScriptNames, bundle.rollbackScripts, fn,
                                bundle.versionName, DirRollback)
        installScripts == _map(bundle.installScriptNames, bundle.installScripts, fn,
                               bundle.versionName, DirInstall)
    IN [bundle |-> VersionBundle(bundle.versionName, Scripts(installScripts), Scripts(rollbackScripts)),
        invocations |-> Invocations(rollbackScripts) \o Invocations(installScripts)]

\* VersionBundle.map 1004-1019
VersionBundleMap(bundle, fn) ==
    LET installScripts == _map(bundle.installScriptNames, bundle.installScripts, fn,
                               bundle.versionName, DirInstall)
        rollbackScripts == _map(bundle.rollbackScriptNames, bundle.rollbackScripts, fn,
                                bundle.versionName, DirRollback)
    IN [bundle |-> VersionBundle(bundle.versionName, Scripts(installScripts), Scripts(rollbackScripts)),
        invocations |-> Invocations(installScripts) \o Invocations(rollbackScripts)]

\* MigrationSources.map 897-917: the new MigrationSources and the invocations of the callback
map(src, fn) ==
    LET mappedBundles == [i \in 1..Len(src.versionNames) |->
                             VersionBundleMap(getVersionBundle(src, src.versionNames[i]), fn)]
    IN [value |-> MigrationSources([i \in 1..Len(mappedBundles) |-> mappedBundles[i].bundle]),
        invocations |-> Flatten([i \in 1..Len(mappedBundles) |-> mappedBundles[i].invocations])]

\* the host maps the MigrationSources it loaded
Map(fn) ==
    /\ job.pc = "done"
    /\ job.loaded
    /\ budget > 0
    /\ budget' = budget - 1
    /\ LET mapped == map(sources, fn)
       IN job' = [StartJob("map", "done", <<>>) EXCEPT !.fn = fn, !.value = mapped.value,
                                                     !.calls = mapped.invocations,
                                                     !.outcome = "ok"]
    /\ error' = "none"
    /\ UNCHANGED <<manager, fs, sources, cancellationToken>>

-----------------------------------------------------------------------------
(* MigrationSources.saveToFilesystem, one awaited call per step *)

\* the host saves the MigrationSources it loaded
Save(destinationDirectory) ==
    /\ job.pc = "done"
    /\ job.loaded
    /\ budget > 0
    /\ budget' = budget - 1
    /\ job' = StartJob("save", "s_exists", destinationDirectory)
    /\ error' = "none"
    /\ UNCHANGED <<manager, fs, sources, cancellationToken>>

\* saveToFilesystem with the missing destination created instead of refused
SaveExists_createsDestination ==
    /\ job.pc = "s_exists"
    /\ fs' = IF exists(fs, job.dir) THEN fs ELSE mkdir(fs, job.dir)
    /\ job' = [job EXCEPT !.io = Append(@, Io("exists", job.dir)), !.pc = "s_version", !.vi = 1]
    /\ UNCHANGED <<manager, budget, sources, cancellationToken, error>>

\* saveToFilesystem 922-927
SaveExists ==
    /\ job.pc = "s_exists"
    /\ LET j == [job EXCEPT !.io = Append(@, Io("exists", job.dir))]
       IN IF exists(fs, job.dir)
          THEN job' = [j EXCEPT !.pc = "s_version", !.vi = 1] /\ error' = error
          ELSE JobThrow([j EXCEPT !.paramName = "destinationDirectory"], "ArgumentError")
    /\ UNCHANGED <<manager, budget, fs, sources, cancellationToken>>

\* a cancellation check followed by fs.mkdir of the directory, then on to pcNext
SaveMkdir(directory, pcNext) ==
    IF cancellationToken
    THEN JobThrow(job, "CancelledError") /\ fs' = fs
    ELSE LET j == [job EXCEPT !.io = @ \o <<Io("check", <<>>), Io("mkdir", directory)>>]
         IN IF CanMkdir(fs, directory)
            THEN /\ fs' = mkdir(fs, directory)
                 /\ job' = [j EXCEPT !.pc = pcNext]
                 /\ error' = error
            ELSE JobThrow(j, "Error") /\ fs' = fs

\* saveToFilesystem 929-936
SaveVersion ==
    /\ job.pc = "s_version"
    /\ job.vi <= Len(sources.versionNames)
    /\ SaveMkdir(VersionDir(job.dir, sources.versionNames[job.vi]), "s_mkdirInstall")
    /\ UNCHANGED <<manager, budget, sources, cancellationToken>>

\* saveToFilesystem 937-938 without the cancellation check of line 937
SaveMkdirInstall_unchecked ==
    /\ job.pc = "s_mkdirInstall"
    /\ LET directory == DirectionDir(job.dir, sources.versionNames[job.vi], DirInstall)
           j == [job EXCEPT !.io = Append(@, Io("mkdir", directory))]
       IN IF CanMkdir(fs, directory)
          THEN fs' = mkdir(fs, directory) /\ job' = [j EXCEPT !.pc = "s_mkdirRollback"] /\ error' = error
          ELSE JobThrow(j, "Error") /\ fs' = fs
    /\ UNCHANGED <<manager, budget, sources, cancellationToken>>

\* saveToFilesystem 937-938
SaveMkdirInstall ==
    /\ job.pc = "s_mkdirInstall"
    /\ SaveMkdir(DirectionDir(job.dir, sources.versionNames[job.vi], DirInstall), "s_mkdirRollback")
    /\ UNCHANGED <<manager, budget, sources, cancellationToken>>

\* the names saveToFilesystem writes in the direction it is at
SaveNames(j) ==
    LET versionBundle == getVersionBundle(sources, sources.versionNames[j.vi])
    IN IF j.direction = DirInstall THEN versionBundle.installScriptNames
       ELSE versionBundle.rollbackScriptNames

\* saveToFilesystem 944-957: from the install loop to the rollback loop to the next version
RECURSIVE SaveSeek(_)
SaveSeek(j) ==
    IF j.fi <= Len(SaveNames(j)) THEN [j EXCEPT !.pc = "s_file"]
    ELSE IF j.direction = DirInstall THEN SaveSeek([j EXCEPT !.direction = DirRollback, !.fi = 1])
    ELSE [j EXCEPT !.vi = @ + 1, !.pc = "s_version"]

\* saveToFilesystem 939-942 without the rollback directory
SaveMkdirRollback_omitted ==
    /\ job.pc = "s_mkdirRollback"
    /\ IF cancellationToken
       THEN JobThrow(job, "CancelledError")
       ELSE job' = SaveSeek([job EXCEPT !.direction = DirInstall, !.fi = 1]) /\ error' = error
    /\ UNCHANGED <<manager, budget, fs, sources, cancellationToken>>

\* saveToFilesystem 939-942
SaveMkdirRollback ==
    /\ job.pc = "s_mkdirRollback"
    /\ IF cancellationToken
       THEN JobThrow(job, "CancelledError") /\ fs' = fs
       ELSE LET directory == DirectionDir(job.dir, sources.versionNames[job.vi], DirRollback)
                j == [job EXCEPT !.io = @ \o <<Io("check", <<>>), Io("mkdir", directory)>>]
            IN IF CanMkdir(fs, directory)
               THEN /\ fs' = mkdir(fs, directory)
                    /\ job' = SaveSeek([j EXCEPT !.direction = DirInstall, !.fi = 1])
                    /\ error' = error
               ELSE JobThrow(j, "Error") /\ fs' = fs
    /\ UNCHANGED <<manager, budget, sources, cancellationToken>>

\* saveToFilesystem 944-949, 951-956: cancellation check, writeFile of the script's content
SaveWriteFile ==
    /\ job.pc = "s_file"
    /\ IF cancellationToken
       THEN JobThrow(job, "CancelledError") /\ fs' = fs
       ELSE LET versionName == sources.versionNames[job.vi]
                versionBundle == getVersionBundle(sources, versionName)
                itemName == SaveNames(job)[job.fi]
                bundleFile == PathJoin(DirectionDir(job.dir, versionName, job.direction), itemName)
                bundleItem == IF job.direction = DirInstall
                              THEN getInstallScript(versionBundle, itemName)
                              ELSE getRollbackScript(versionBundle, itemName)
                j == [job EXCEPT !.io = @ \o <<Io("check", <<>>), Io("writeFile", bundleFile)>>]
            IN IF CanWriteFile(fs, bundleFile)
               THEN /\ fs' = writeFile(fs, bundleFile, bundleItem.content)
                    /\ job' = SaveSeek([j EXCEPT !.fi = @ + 1])
                    /\ error' = error
               ELSE JobThrow(j, "Error") /\ fs' = fs
    /\ UNCHANGED <<manager, budget, sources, cancellationToken>>

\* saveToFilesystem 958: the versions are exhausted
SaveReturn ==
    /\ job.pc = "s_version"
    /\ job.vi > Len(sources.versionNames)
    /\ job' = [job EXCEPT !.pc = "done", !.outcome = "ok"]
    /\ UNCHANGED <<manager, budget, fs, sources, cancellationToken, error>>

-----------------------------------------------------------------------------
(* A host that loads a migration directory, then maps or saves what it loaded *)

SourcesInit ==
    /\ sources = MigrationSources(<<>>)
    /\ db = [tableExists |-> FALSE, logs |-> [v \in {} |-> <<>>], effects |-> {}]
    /\ budget = MaxOperations
    /\ pc = "idle"
    /\ call = NoCall
    /\ tx = NoTransaction(db)
    /\ scopes = 0
    /\ inflight = {}
    /\ lines = <<>>
    /\ wraplog = <<>>
    /\ events = <<>>
    /\ result = "none"
    /\ cancellationToken = FALSE
    /\ error = "none"
    /\ fs \in InitialTrees
    /\ job = NoJob

SourcesNext ==
    \/ \E sourceUri \in SourceUris : load(sourceUri)
    \/ LoadExists
    \/ LoadReaddir
    \/ LoadVersion
    \/ LoadReaddirDirection
    \/ LoadFile
    \/ LoadExistsRollback
    \/ LoadReturn
    \/ \E fn \in Mappers : Map(fn)
    \/ Save(DestDir)
    \/ SaveExists
    \/ SaveVersion
    \/ SaveMkdirInstall
    \/ SaveMkdirRollback
    \/ SaveWriteFile
    \/ SaveReturn
    \/ Cancel

SourcesSpec == SourcesInit /\ [][SourcesNext]_vars

-----------------------------------------------------------------------------
(* A migration directory with one version, v10, whose install and rollback directories hold
   one file each, of any short name: what kind the loaded script gets *)

\* longest file name made of the characters ".", "s", "q", "l", "S"
MaxNameLen == 5

RECURSIVE Words(_, _)
Words(alphabet, n) ==
    IF n = 0 THEN {<<>>}
    ELSE LET shorter == Words(alphabet, n - 1)
         IN shorter \cup {Append(w, c) : w \in {x \in shorter : Len(x) = n - 1}, c \in alphabet}

\* "1.SQL", "2.js", "2.Js", ".js", "README", "a.js.sql", "a.sql.js"
FileNames ==
    (Words({46, 115, 113, 108, 83}, MaxNameLen) \ {<<>>})
    \cup {<<49, 46, 83, 81, 76>>, F2js, <<50, 46, 74, 115>>, ExtJs, README,
          <<97>> \o ExtJs \o ExtSql, <<97>> \o ExtSql \o ExtJs}

KindTree(name) ==
    LET installFile == PathJoin(DirectionDir(RootDir, V10, DirInstall), name)
        rollbackFile == PathJoin(DirectionDir(RootDir, V10, DirRollback), name)
    IN [p \in {RootDir, VersionDir(RootDir, V10), DirectionDir(RootDir, V10, DirInstall),
               DirectionDir(RootDir, V10, DirRollback), installFile, rollbackFile} |->
           IF p \in {installFile, rollbackFile} THEN File(name) ELSE Directory]

KindInit ==
    /\ sources = MigrationSources(<<>>)
    /\ db = [tableExists |-> FALSE, logs |-> [v \in {} |-> <<>>], effects |-> {}]
    /\ budget = MaxOperations
    /\ pc = "idle"
    /\ call = NoCall
    /\ tx = NoTransaction(db)
    /\ scopes = 0
    /\ inflight = {}
    /\ lines = <<>>
    /\ wraplog = <<>>
    /\ events = <<>>
    /\ result = "none"
    /\ cancellationToken = FALSE
    /\ error = "none"
    /\ fs \in {KindTree(name) : name \in FileNames}
    /\ job = NoJob

KindNext ==
    \/ load(FileUrl(RootDir))
    \/ LoadExists
    \/ LoadReaddir
    \/ LoadVersion
    \/ LoadReaddirDirection
    \/ LoadFile
    \/ LoadExistsRollback
    \/ LoadReturn
    \/ \E fn \in Mappers : Map(fn)

KindSpec == KindInit /\ [][KindNext]_vars

-----------------------------------------------------------------------------
(* The instances behind the values: every "new" and every array literal allocates an object
   in a heap, and a field of an object holds a string or a reference to another object. The
   host builds a VersionBundle from lists of scripts, or loads a MigrationSources, and maps
   what it holds. *)

\* longest list of scripts the host passes to the VersionBundle constructor
MaxItems == 2

Alloc(heap, object) == [heap |-> Append(heap, object), ref |-> Len(heap) + 1]

\* new Script(name, kind, file, content) 1036-1043, for each script of a list
RECURSIVE new_Scripts(_, _)
new_Scripts(heap, scripts) ==
    IF scripts = <<>> THEN [heap |-> heap, refs |-> <<>>]
    ELSE LET s == Head(scripts)
             a == Alloc(heap, [class |-> "Script", name |-> s.name, kind |-> s.kind,
                               file |-> s.file, content |-> s.content])
             rest == new_Scripts(a.heap, Tail(scripts))
         IN [heap |-> rest.heap, refs |-> <<a.ref>> \o rest.refs]

\* new Map(pairs): the keys in order of first insertion, under a key the value set last
new_Map(heap, keys, values) ==
    Alloc(heap, [class |-> "Map", keys |-> MapKeys(keys),
                 entries |-> [k \in Range(keys) |->
                                 values[CHOOSE i \in 1..Len(keys) :
                                           keys[i] = k /\ \A j \in (i + 1)..Len(keys) : keys[j] # k]]])

\* Object.freeze([...map.keys()].sort())
new_SortedKeys(heap, map_) ==
    Alloc(heap, [class |-> "Array", frozen |-> TRUE, items |-> Sort(heap[map_].keys)])

\* the VersionBundle constructor with the names taken from the items instead of the Map's keys
new_VersionBundle_namesOfItems(heap, versionName, installItems, rollbackItems) ==
    LET installScripts == new_Map(heap, [i \in 1..Len(installItems) |-> heap[installItems[i]].name],
                                  installItems)
        rollbackScripts == new_Map(installScripts.heap,
                                   [i \in 1..Len(rollbackItems) |-> heap[rollbackItems[i]].name],
                                   rollbackItems)
        installScriptNames ==
            Alloc(rollbackScripts.heap,
                  [class |-> "Array", frozen |-> TRUE,
                   items |-> Sort([i \in 1..Len(installItems) |-> heap[installItems[i]].name])])
        rollbackScriptNames ==
            Alloc(installScriptNames.heap,
                  [class |-> "Array", frozen |-> TRUE,
                   items |-> Sort([i \in 1..Len(rollbackItems) |-> heap[rollbackItems[i]].name])])
    IN Alloc(rollbackScriptNames.heap,
             [class |-> "VersionBundle", versionName |-> versionName,
              installScriptNames |-> installScriptNames.ref,
              rollbackScriptNames |-> rollbackScriptNames.ref,
              _installScripts |-> installScripts.ref,
              _rollbackScripts |-> rollbackScripts.ref])

\* VersionBundle constructor 976-986 over references to Script objects
new_VersionBundle(heap, versionName, installItems, rollbackItems) ==
    LET installScripts == new_Map(heap, [i \in 1..Len(installItems) |-> heap[installItems[i]].name],
                                  installItems)
        rollbackScripts == new_Map(installScripts.heap,
                                   [i \in 1..Len(rollbackItems) |-> heap[rollbackItems[i]].name],
                                   rollbackItems)
        installScriptNames == new_SortedKeys(rollbackScripts.heap, installScripts.ref)
        rollbackScriptNames == new_SortedKeys(installScriptNames.heap, rollbackScripts.ref)
    IN Alloc(rollbackScriptNames.heap,
             [class |-> "VersionBundle", versionName |-> versionName,
              installScriptNames |-> installScriptNames.ref,
              rollbackScriptNames |-> rollbackScriptNames.ref,
              _installScripts |-> installScripts.ref,
              _rollbackScripts |-> rollbackScripts.ref])

\* MigrationSources constructor 960-963 over references to VersionBundle objects
new_MigrationSources(heap, bundles) ==
    LET versions_ == new_Map(heap, [i \in 1..Len(bundles) |-> heap[bundles[i]].versionName], bundles)
        versionNames == new_SortedKeys(versions_.heap, versions_.ref)
    IN Alloc(versionNames.heap,
             [class |-> "MigrationSources", _versions |-> versions_.ref,
              versionNames |-> versionNames.ref])

\* VersionBundle._map that pushes the item it read from the Map
RECURSIVE MapItems_sameItem(_, _, _, _, _, _)
MapItems_sameItem(heap, itemNames, itemsMap, fn, versionName, direction) ==
    IF itemNames = <<>> THEN [heap |-> heap, refs |-> <<>>]
    ELSE LET rest == MapItems_sameItem(heap, Tail(itemNames), itemsMap, fn, versionName, direction)
         IN [heap |-> rest.heap, refs |-> <<heap[itemsMap].entries[Head(itemNames)]>> \o rest.refs]

\* VersionBundle._map 1021-1033: a new Script per item name, the references in mappedItems
RECURSIVE MapItems(_, _, _, _, _, _)
MapItems(heap, itemNames, itemsMap, fn, versionName, direction) ==
    IF itemNames = <<>> THEN [heap |-> heap, refs |-> <<>>]
    ELSE LET item == heap[heap[itemsMap].entries[Head(itemNames)]]
             info == Invocation(item.content, versionName, direction, item.name).info
             newContent == callbackfn(fn, item.content, info)
             a == Alloc(heap, [class |-> "Script", name |-> item.name, kind |-> item.kind,
                               file |-> item.file, content |-> newContent])
             rest == MapItems(a.heap, Tail(itemNames), itemsMap, fn, versionName, direction)
         IN [heap |-> rest.heap, refs |-> <<a.ref>> \o rest.refs]

\* VersionBundle.map 1004-1019
VersionBundle_map(heap, this, fn) ==
    LET installScripts == MapItems(heap, heap[heap[this].installScriptNames].items,
                                   heap[this]._installScripts, fn, heap[this].versionName, DirInstall)
        rollbackScripts == MapItems(installScripts.heap, heap[heap[this].rollbackScriptNames].items,
                                    heap[this]._rollbackScripts, fn, heap[this].versionName,
                                    DirRollback)
    IN new_VersionBundle(rollbackScripts.heap, heap[this].versionName, installScripts.refs,
                         rollbackScripts.refs)

\* MigrationSources.map 897-917: the loop over this.versionNames
RECURSIVE MapBundles(_, _, _, _)
MapBundles(heap, this, versionNames, fn) ==
    IF versionNames = <<>> THEN [heap |-> heap, refs |-> <<>>]
    ELSE LET bundle == heap[heap[this]._versions].entries[Head(versionNames)]
             newBundle == VersionBundle_map(heap, bundle, fn)
             rest == MapBundles(newBundle.heap, this, Tail(versionNames), fn)
         IN [heap |-> rest.heap, refs |-> <<newBundle.ref>> \o rest.refs]

MigrationSources_map(heap, this, fn) ==
    LET mappedBundles == MapBundles(heap, this, heap[heap[this].versionNames].items, fn)
    IN new_MigrationSources(mappedBundles.heap, mappedBundles.refs)

\* loadFromFilesystem 848-886: the scripts, bundles and MigrationSources it allocates
RECURSIVE LoadBundles(_, _)
LoadBundles(heap, listVersions) ==
    IF listVersions = <<>> THEN [heap |-> heap, refs |-> <<>>]
    ELSE LET installBundleItems == new_Scripts(heap, LoadItems(Head(listVersions), DirInstall))
             rollbackBundleItems == new_Scripts(installBundleItems.heap,
                                                LoadItems(Head(listVersions), DirRollback))
             bundle == new_VersionBundle(rollbackBundleItems.heap, Head(listVersions),
                                         installBundleItems.refs, rollbackBundleItems.refs)
             rest == LoadBundles(bundle.heap, Tail(listVersions))
         IN [heap |-> rest.heap, refs |-> <<bundle.ref>> \o rest.refs]

\* what the host holds: the heap, the object it called a method of, the object it got
Objects(op, heap, receiver, value, fn, installItems, rollbackItems) ==
    [op |-> op, pc |-> "done", outcome |-> "ok", heap |-> heap, receiver |-> receiver,
     value |-> value, fn |-> fn, installItems |-> installItems, rollbackItems |-> rollbackItems]

\* scripts the host makes: two names, two contents
HostScripts ==
    {Script(n, resolveScriptKindByExtension(n), n, c) : n \in {F1sql, F2js}, c \in {<<49>>, <<50>>}}

\* the lists the host passes: up to MaxItems install items, one fewer rollback items
ItemLists(longest) == UNION {[1..n -> HostScripts] : n \in 0..longest}

ObjectsInit ==
    /\ sources = MigrationSources(<<>>)
    /\ db = [tableExists |-> FALSE, logs |-> [v \in {} |-> <<>>], effects |-> {}]
    /\ budget = MaxOperations
    /\ pc = "idle"
    /\ call = NoCall
    /\ tx = NoTransaction(db)
    /\ scopes = 0
    /\ inflight = {}
    /\ lines = <<>>
    /\ wraplog = <<>>
    /\ events = <<>>
    /\ result = "none"
    /\ cancellationToken = FALSE
    /\ error = "none"
    /\ fs = NoFiles
    /\ job = Objects("none", <<>>, 0, 0, "", <<>>, <<>>)

\* the host calls new MigrationSources.VersionBundle(versionName, installItems, rollbackItems)
HostNewVersionBundle(installItems, rollbackItems) ==
    /\ job.op = "none"
    /\ LET i == new_Scripts(job.heap, installItems)
           r == new_Scripts(i.heap, rollbackItems)
           bundle == new_VersionBundle(r.heap, V0001, i.refs, r.refs)
       IN job' = Objects("new", bundle.heap, 0, bundle.ref, "", i.refs, r.refs)
    /\ UNCHANGED <<manager, sources, budget, fs, cancellationToken, error>>

\* the host loads a migration directory
HostLoad(listVersions) ==
    /\ job.op = "none"
    /\ LET bundles == LoadBundles(job.heap, listVersions)
           value == new_MigrationSources(bundles.heap, bundles.refs)
       IN job' = Objects("load", value.heap, 0, value.ref, "", <<>>, <<>>)
    /\ UNCHANGED <<manager, sources, budget, fs, cancellationToken, error>>

\* the host maps the object it got last
HostMap(fn) ==
    /\ job.op # "none"
    /\ budget > 0
    /\ budget' = budget - 1
    /\ LET value == IF job.heap[job.value].class = "VersionBundle"
                    THEN VersionBundle_map(job.heap, job.value, fn)
                    ELSE MigrationSources_map(job.heap, job.value, fn)
       IN job' = Objects("map", value.heap, job.value, value.ref, fn, <<>>, <<>>)
    /\ UNCHANGED <<manager, sources, fs, cancellationToken, error>>

ObjectsNext ==
    \/ \E installItems \in ItemLists(MaxItems), rollbackItems \in ItemLists(MaxItems - 1) :
          HostNewVersionBundle(installItems, rollbackItems)
    \/ \E S \in {X \in SUBSET VersionUniverse : Cardinality(X) <= MaxTreeVersions} :
          \E listVersions \in Orderings(S) : HostLoad(listVersions)
    \/ \E fn \in Mappers : HostMap(fn)

ObjectsSpec == ObjectsInit /\ [][ObjectsNext]_vars

-----------------------------------------------------------------------------
(* Reading the record of an invocation *)

Called(op) == call.op = op /\ events # <<>> /\ events[1].e = "getCurrentVersion"

EventIdx(kinds, v) == {i \in 1..Len(events) : events[i].e \in kinds /\ events[i].v = v}

Begins == SelectSeq(events, LAMBDA x : x.e = "begin")

\* index of the last "begin" at or before event j, 0 when there is none
RECURSIVE ScopeStart(_)
ScopeStart(j) == IF j = 0 THEN 0 ELSE IF events[j].e = "begin" THEN j ELSE ScopeStart(j - 1)

\* event j happened inside the transaction scope opened for its own version, still open then
InOwnScope(j) ==
    LET b == ScopeStart(j)
    IN /\ b > 0
       /\ events[b].v = events[j].v
       /\ \A i \in (b + 1)..(j - 1) : events[i].e \notin {"commit", "abort"}

\* the scripts of one version that were dispatched, in dispatch order
Dispatched(v) == SelectSeq(events, LAMBDA x : x.e \in {"start", "unknown"} /\ x.v = v)

DispatchedNames(v) == [i \in 1..Len(Dispatched(v)) |-> Dispatched(v)[i].s]

StrictlyAscending(s) == \A i \in 1..(Len(s) - 1) : StrLess(s[i], s[i + 1])
StrictlyDescending(s) == \A i \in 1..(Len(s) - 1) : StrLess(s[i + 1], s[i])

\* names of the scripts of a bundle map that are submitted for execution (kind SQL or JAVASCRIPT)
Submitted(scripts) == {n \in DOMAIN scripts : scripts[n].kind # "UNKNOWN"}

Last(s) == s[Len(s)]

-----------------------------------------------------------------------------
(* Claims *)

InstallPlan ==
    {v \in Range(sources.versionNames) :
        /\ call.currentVersion = NULL \/ StrLess(call.currentVersion, v)
        /\ call.targetVersion = UNDEFINED \/ StrLessEq(v, call.targetVersion)}

\* C1: install(targetVersion?) schedules exactly the source versions v with
\* (currentVersion = null or v > currentVersion) and (targetVersion not given or
\* v <= targetVersion) under raw string comparison, each once and no other version, and the
\* versions whose transactions it opens are versions of that schedule; sources
\* {v0001, v0002, vXXXX}, current v0001, target v0002 schedule exactly [v0002].
C1_InstallSchedule ==
    Called("install") =>
        /\ Range(call.schedule) = InstallPlan
        /\ Len(call.schedule) = Cardinality(InstallPlan)
        /\ \A i \in 1..Len(Begins) : Begins[i].v \in InstallPlan
        /\ result = "ok" => {Begins[i].v : i \in 1..Len(Begins)} = InstallPlan
        /\ (/\ sources.versionNames = <<V0001, V0002, VXXXX>>
            /\ call.currentVersion = V0001
            /\ call.targetVersion = V0002) => call.schedule = <<V0002>>

C1_Witness ==
    /\ Called("install")
    /\ sources.versionNames = <<V0001, V0002, VXXXX>>
    /\ call.currentVersion = V0001
    /\ call.targetVersion = V0002
    /\ call.schedule = <<V0002>>
    /\ result = "ok"
    /\ EventIdx({"commit"}, V0002) # {}

RollbackPlan ==
    {v \in Range(sources.versionNames) :
        /\ call.currentVersion = NULL \/ StrLessEq(v, call.currentVersion)
        /\ call.targetVersion = UNDEFINED \/ StrLess(call.targetVersion, v)}

\* C2: rollback(targetVersion?) schedules exactly the source versions v with
\* (currentVersion = null or v <= currentVersion) and (targetVersion not given or
\* v > targetVersion), in descending string order; sources {v0001, v0002, vXXXX}, current
\* vXXXX, target v0001 schedule exactly [vXXXX, v0002] in that order.
C2_RollbackSchedule ==
    Called("rollback") =>
        /\ Range(call.schedule) = RollbackPlan
        /\ StrictlyDescending(call.schedule)
        /\ \A i \in 1..Len(Begins) : Begins[i].v = call.schedule[i]
        /\ (/\ sources.versionNames = <<V0001, V0002, VXXXX>>
            /\ call.currentVersion = VXXXX
            /\ call.targetVersion = V0001) => call.schedule = <<VXXXX, V0002>>

C2_Witness ==
    /\ Called("rollback")
    /\ sources.versionNames = <<V0001, V0002, VXXXX>>
    /\ call.currentVersion = VXXXX
    /\ call.targetVersion = V0001
    /\ call.schedule = <<VXXXX, V0002>>
    /\ result = "ok"
    /\ Len(Begins) = 2

\* every script step and log-row step happened inside the scope of its own version, every
\* scope but the last one was committed before the next one was opened, and no scope was
\* opened while another was open
OneScopePerVersion ==
    /\ \A j \in 1..Len(events) :
          events[j].e \in {"start", "unknown", "done", "insertVersionLog", "removeVersionLog",
                           "isVersionLogExist", "skip"} => InOwnScope(j)
    /\ \A j \in 2..Len(events) :
          events[j].e = "begin" /\ ScopeStart(j - 1) > 0 =>
              /\ events[j - 1].e = "commit"
              /\ events[j - 1].v = events[ScopeStart(j - 1)].v
    /\ Cardinality({Begins[i].v : i \in 1..Len(Begins)}) = Len(Begins)
    /\ scopes <= 1

\* C3: during install the scheduled versions are processed in ascending version order, each
\* in its own transaction scope, and the transaction of a version has committed before any
\* script of the next scheduled version begins.
C3_InstallVersionOrder ==
    Called("install") =>
        /\ StrictlyAscending([i \in 1..Len(Begins) |-> Begins[i].v])
        /\ \A i \in 1..Len(Begins) : Begins[i].v = call.schedule[i]
        /\ OneScopePerVersion

C3_Witness ==
    /\ Called("install")
    /\ result = "ok"
    /\ Len(call.schedule) = 3
    /\ \E v \in VersionUniverse : Cardinality(EventIdx({"commit"}, v)) = 1 /\ Len(Dispatched(v)) = 2
    /\ Cardinality({i \in 1..Len(events) : events[i].e = "commit"}) = 3

\* C4: during rollback the scheduled versions are processed in descending version order, each
\* in its own transaction, within a version the rollback scripts run in strictly descending
\* name order, and the transaction of a version has committed before any script of the next
\* lower version begins.
C4_RollbackOrder ==
    Called("rollback") =>
        /\ StrictlyDescending([i \in 1..Len(Begins) |-> Begins[i].v])
        /\ OneScopePerVersion
        /\ \A v \in Range(call.schedule) :
              /\ StrictlyDescending(DispatchedNames(v))
              /\ Range(DispatchedNames(v)) \subseteq
                    Range(getVersionBundle(sources, v).rollbackScriptNames)
              /\ EventIdx({"removeVersionLog"}, v) # {} =>
                    Range(DispatchedNames(v)) = Range(getVersionBundle(sources, v).rollbackScriptNames)

C4_Witness ==
    /\ Called("rollback")
    /\ result = "ok"
    /\ DispatchedNames(VXXXX) = <<F2js, F1sql>>
    /\ DispatchedNames(V0002) = <<F9txt, F10sql>>
    /\ Begins[1].v = VXXXX
    /\ Begins[2].v = V0002

\* C5: within one version's install transaction the install scripts are executed one at a
\* time in strictly ascending order of their names, and a script does not start until the
\* script before it has completed.
C5_InstallScriptOrder ==
    Called("install") =>
        /\ Cardinality(inflight) <= 1
        /\ \A v \in Range(call.schedule) :
              /\ StrictlyAscending(DispatchedNames(v))
              /\ Range(DispatchedNames(v)) \subseteq
                    Range(getVersionBundle(sources, v).installScriptNames)
              /\ EventIdx({"insertVersionLog"}, v) # {} =>
                    Range(DispatchedNames(v)) = Range(getVersionBundle(sources, v).installScriptNames)
        /\ \A i \in 1..Len(events) : \A j \in (i + 1)..Len(events) :
              (/\ events[i].e = "start"
               /\ events[j].e \in {"start", "unknown", "insertVersionLog"}
               /\ events[j].v = events[i].v)
              => \E d \in (i + 1)..(j - 1) :
                    events[d].e = "done" /\ events[d].v = events[i].v /\ events[d].s = events[i].s

C5_Witness ==
    /\ Called("install")
    /\ DispatchedNames(V0002) = <<F10sql, F9sql>>
    /\ \E d \in 1..Len(events) : events[d].e = "done" /\ events[d].v = V0002 /\ events[d].s = F9sql
    /\ pc = "i_commit"

\* the transaction scope in which event j happened was not committed afterwards
NeverCommittedAfter(j) ==
    \A i \in (j + 1)..Len(events) :
        events[i].e = "commit" => ScopeStart(i) # ScopeStart(j)

\* C6: if a script, statement or hook fails inside a version's transaction (install or
\* rollback), that transaction is not committed: the database is what it was when the
\* transaction began, so none of the version's script effects persist and its log row is
\* neither inserted (install) nor removed (rollback); the failure reaches the caller.
C6_FailedVersionNotCommitted ==
    \A j \in 1..Len(events) :
        (events[j].e = "fail" /\ events[j].v # NULL) =>
            /\ InOwnScope(j)
            /\ NeverCommittedAfter(j)
            /\ j < Len(events) /\ events[j + 1].e = "abort" /\ events[j + 1].v = events[j].v
            /\ result = "failed"
            /\ pc = "idle"
            /\ ~tx.open
            /\ db = tx.base
            /\ \A f \in db.effects : f.v # events[j].v
            /\ call.op = "install" => events[j].v \notin DOMAIN db.logs
            /\ (call.op = "rollback" /\ EventIdx({"isVersionLogExist"}, events[j].v) # {})
                  => events[j].v \in DOMAIN db.logs

C6_Witness ==
    /\ result = "failed"
    /\ call.op = "install"
    /\ \E j \in 2..Len(events) :
          /\ events[j].e = "fail"
          /\ events[j].v = V0001
          /\ events[j].s = F2js
          /\ \E d \in 1..(j - 1) : events[d].e = "done" /\ events[d].v = V0001 /\ events[d].s = F1sql
    /\ Effect(V0001, DirInstall, F1sql) \in tx.effects
    /\ Effect(V0001, DirInstall, F1sql) \notin db.effects

\* effects of the install scripts of version v that are submitted to the driver or the runtime
InstallEffects(v) ==
    {Effect(v, DirInstall, n) : n \in Submitted(getVersionBundle(sources, v).installScripts)}

RollbackEffects(v) ==
    {Effect(v, DirRollback, n) : n \in Submitted(getVersionBundle(sources, v).rollbackScripts)}

\* C7: when install fails at scheduled version V, every scheduled version smaller than V stays
\* committed with its log row, and no script of any scheduled version greater than V is
\* executed (no later transaction is opened); nothing is rolled back automatically.
C7_InstallFailureKeepsEarlier ==
    /\ \A j \in 1..Len(events) :
          (Called("install") /\ events[j].e = "abort") => j = Len(events) /\ result = "failed"
    /\ (Called("install") /\ result = "failed" /\ call.version # NULL) =>
        /\ call.vi \in 1..Len(call.schedule)
        /\ call.schedule[call.vi] = call.version
        /\ Last(events) = Ev("abort", call.version, <<>>)
        /\ pc = "idle"
        /\ \A k \in 1..(call.vi - 1) :
              /\ call.schedule[k] \in DOMAIN db.logs
              /\ InstallEffects(call.schedule[k]) \subseteq db.effects
              /\ EventIdx({"commit"}, call.schedule[k]) # {}
        /\ \A k \in (call.vi + 1)..Len(call.schedule) :
              /\ \A i \in 1..Len(events) : events[i].v # call.schedule[k]
              /\ InstallEffects(call.schedule[k]) \cap db.effects = {}
              /\ call.schedule[k] \notin DOMAIN db.logs
        /\ scopes = 0

C7_Witness ==
    /\ Called("install")
    /\ result = "failed"
    /\ Len(call.schedule) = 3
    /\ call.vi = 2
    /\ call.schedule[1] \in DOMAIN db.logs
    /\ InstallEffects(call.schedule[1]) # {}
    /\ InstallEffects(call.schedule[3]) # {}

\* C8: for every scheduled install version V, insertVersionLog(V, logText) is called at most
\* once, and exactly once when install succeeds; it is called after all of V's install scripts
\* have completed, inside V's own transaction, and it has completed before that transaction
\* commits; so a log row for V is in the committed database only together with the effects
\* of all of V's install scripts.
C8_InsertVersionLogOnce ==
    Called("install") =>
        \A v \in Range(call.schedule) :
            LET ins == EventIdx({"insertVersionLog"}, v)
                names == Range(getVersionBundle(sources, v).installScriptNames)
            IN /\ Cardinality(ins) <= 1
               /\ result = "ok" => Cardinality(ins) = 1
               /\ EventIdx({"commit"}, v) # {} => Cardinality(ins) = 1
               /\ \A j \in ins :
                     /\ InOwnScope(j)
                     /\ {events[i].s : i \in {x \in ScopeStart(j)..j : events[x].e \in {"start", "unknown"}}}
                           = names
                     /\ \A n \in Submitted(getVersionBundle(sources, v).installScripts) :
                           \E d \in ScopeStart(j)..j :
                               events[d].e = "done" /\ events[d].v = v /\ events[d].s = n
                     /\ \A i \in EventIdx({"commit"}, v) : i > j
                     /\ \A i \in (j + 1)..Len(events) : events[i].e \notin {"start", "unknown", "done"}
                                                        \/ events[i].v # v
               /\ v \in DOMAIN db.logs => InstallEffects(v) \subseteq db.effects

C8_Witness ==
    /\ Called("install")
    /\ result = "ok"
    /\ Len(call.schedule) >= 2
    /\ \A v \in Range(call.schedule) : v \in DOMAIN db.logs /\ db.logs[v] # <<>>
    /\ \E v \in Range(call.schedule) : Cardinality(InstallEffects(v)) = 2

\* C9: for every scheduled rollback version V whose log row exists, removeVersionLog(V) is
\* called at most once, and exactly once when rollback succeeds, after all of V's rollback
\* scripts have completed and inside the same transaction; so after a successful rollback no
\* scheduled version has a log row.
C9_RemoveVersionLogOnce ==
    Called("rollback") =>
        \A v \in Range(call.schedule) :
            LET rem == EventIdx({"removeVersionLog"}, v)
                names == Range(getVersionBundle(sources, v).rollbackScriptNames)
            IN /\ Cardinality(rem) <= 1
               /\ (EventIdx({"commit"}, v) # {} /\ EventIdx({"isVersionLogExist"}, v) # {})
                     => Cardinality(rem) = 1
               /\ \A j \in rem :
                     /\ InOwnScope(j)
                     /\ EventIdx({"isVersionLogExist"}, v) # {}
                     /\ {events[i].s : i \in {x \in ScopeStart(j)..j : events[x].e \in {"start", "unknown"}}}
                           = names
                     /\ \A n \in Submitted(getVersionBundle(sources, v).rollbackScripts) :
                           \E d \in ScopeStart(j)..j :
                               events[d].e = "done" /\ events[d].v = v /\ events[d].s = n
                     /\ \A i \in EventIdx({"commit"}, v) : i > j
               /\ EventIdx({"commit"}, v) # {} => v \notin DOMAIN db.logs
               /\ result = "ok" => v \notin DOMAIN db.logs

C9_Witness ==
    /\ Called("rollback")
    /\ result = "ok"
    /\ Cardinality({v \in Range(call.schedule) : EventIdx({"removeVersionLog"}, v) # {}}) = 2
    /\ \E v \in Range(call.schedule) : Cardinality(RollbackEffects(v) \cap db.effects) = 2

\* C10: during rollback a scheduled version whose log row is absent is skipped with a
\* warning: none of its rollback scripts is executed, removeVersionLog is not called for it,
\* no error is raised, its (empty) transaction commits, and rollback continues with the next
\* lower scheduled version (whose transaction scope the driver may still refuse to open).
C10_RollbackSkipsUnlogged ==
    Called("rollback") =>
        /\ \A j \in 1..Len(events) :
              events[j].e = "skip" =>
                  LET v == events[j].v
                  IN /\ events[j - 1] = Ev("begin", v, <<>>)
                     /\ v \notin DOMAIN db.logs
                     /\ EventIdx({"start", "unknown", "done", "removeVersionLog", "fail", "abort"}, v) = {}
                     /\ RollbackEffects(v) \cap (db.effects \cup tx.effects) = {}
                     /\ \E w \in 1..Len(wraplog) :
                           wraplog[w] = Entry(<<>>, "warn", MsgSkipRollback(v))
                     /\ j = Len(events) => pc = "r_commit" /\ result = "running"
                     /\ j < Len(events) => events[j + 1] = Ev("commit", v, <<>>)
                     /\ j + 1 < Len(events) =>
                           \/ /\ events[j + 2].e = "begin"
                              /\ StrLess(events[j + 2].v, v)
                              /\ events[j + 2].v =
                                    call.schedule[Cardinality({i \in 1..j : events[i].e = "begin"}) + 1]
                           \/ /\ events[j + 2] = Ev("fail", NULL, <<>>)
                              /\ j + 2 = Len(events)
                              /\ result = "failed"
        /\ (pc \in {"r_scripts"} /\ tx.open) => call.version \in DOMAIN tx.base.logs
        /\ \A j \in 1..Len(events) :
              (events[j].e = "begin" /\ j < Len(events) /\ events[j].v \notin DOMAIN db.logs
               /\ EventIdx({"removeVersionLog"}, events[j].v) = {})
                  => events[j + 1].e \in {"skip", "fail"}

C10_Witness ==
    /\ Called("rollback")
    /\ result = "ok"
    /\ \E j \in 1..Len(events) :
          /\ events[j].e = "skip"
          /\ j + 2 < Len(events)
          /\ events[j + 3].e = "isVersionLogExist"
    /\ \E v \in Range(call.schedule) : EventIdx({"removeVersionLog"}, v) # {}

\* the script of the running invocation's direction named s in version v, and what it leaves
ScriptOf(v, s) ==
    IF call.op = "install" THEN getInstallScript(getVersionBundle(sources, v), s)
    ELSE getRollbackScript(getVersionBundle(sources, v), s)

EffectOf(v, s) == Effect(v, IF call.op = "install" THEN DirInstall ELSE DirRollback, s)

\* C11: a script of kind UNKNOWN is never submitted to the driver nor to the script runtime:
\* the engine emits a warn entry that ends with "unknown kind of script", raises no error,
\* goes on with the next script of the version (or, after the last one, with the log row),
\* and when the invocation succeeds the version has completed: its log row is inserted on
\* install, removed on rollback.
C11_UnknownNeverSubmitted ==
    (Called("install") \/ Called("rollback")) =>
        /\ \A j \in 1..Len(events) :
              events[j].e = "start" => ScriptOf(events[j].v, events[j].s).kind \in {"SQL", "JAVASCRIPT"}
        /\ \A j \in 1..Len(events) :
              events[j].e = "unknown" =>
                  LET v == events[j].v
                      script == ScriptOf(v, events[j].s)
                  IN /\ script.kind = "UNKNOWN"
                     /\ \A i \in 1..Len(events) :
                           (events[i].v = v /\ events[i].s = script.name) => i = j
                     /\ EffectOf(v, script.name) \notin (inflight \cup tx.effects \cup db.effects)
                     /\ \E w \in 1..Len(wraplog) :
                           /\ wraplog[w].level = "warn"
                           /\ wraplog[w].message = MsgSkipScript(v, script)
                           /\ Last(wraplog[w].message) = Lit("' due unknown kind of script")
                     /\ j = Len(events) => result = "running" /\ pc \in {"i_scripts", "r_scripts"}
                     /\ j < Len(events) =>
                           /\ events[j + 1].v = v
                           /\ events[j + 1].e \in {"start", "unknown", "done", "insertVersionLog",
                                                    "removeVersionLog", "fail"}
                           /\ events[j + 1].e \in {"start", "unknown"} =>
                                 IF call.op = "install"
                                 THEN StrLess(script.name, events[j + 1].s)
                                 ELSE StrLess(events[j + 1].s, script.name)
                     /\ result = "ok" =>
                           IF call.op = "install"
                           THEN EventIdx({"insertVersionLog"}, v) # {} /\ v \in DOMAIN db.logs
                           ELSE EventIdx({"removeVersionLog"}, v) # {} /\ v \notin DOMAIN db.logs
        /\ \A v \in Range(call.schedule) : \A n \in Range(call.names) :
              (EventIdx({"insertVersionLog", "removeVersionLog"}, v) # {} /\ call.version = v
               /\ ScriptOf(v, n).kind = "UNKNOWN")
                 => \E j \in 1..Len(events) : events[j] = Ev("unknown", v, n)

C11_Witness ==
    /\ Called("rollback")
    /\ result = "ok"
    /\ \E j \in 1..(Len(events) - 1) :
          /\ events[j] = Ev("unknown", V0002, F9txt)
          /\ events[j + 1] = Ev("start", V0002, F10sql)
    /\ EventIdx({"removeVersionLog"}, V0002) # {}
    /\ V0002 \notin DOMAIN db.logs
    /\ Effect(V0002, DirRollback, F10sql) \in db.effects
    /\ Effect(V0002, DirRollback, F9txt) \notin db.effects

-----------------------------------------------------------------------------
(* Claims about MigrationSources *)

Mapped == job.op = "map" /\ job.outcome = "ok"

\* every (version, direction, script name) of a MigrationSources, as the callback's info
Tuples(src) ==
    UNION {{[versionName |-> v, direction |-> DirInstall, itemName |-> n] :
               n \in DOMAIN src.versions[v].installScripts}
           \cup {[versionName |-> v, direction |-> DirRollback, itemName |-> n] :
                    n \in DOMAIN src.versions[v].rollbackScripts} : v \in DOMAIN src.versions}

ScriptAt(src, t) ==
    IF t.direction = DirInstall THEN src.versions[t.versionName].installScripts[t.itemName]
    ELSE src.versions[t.versionName].rollbackScripts[t.itemName]

\* C13: map(fn) returns a MigrationSources with the same versionNames, the same
\* installScriptNames and rollbackScriptNames in every bundle, and for every script the same
\* name, kind and file; the content of each script is fn(oldContent, {versionName, direction,
\* itemName}) for that script; the mapped MigrationSources itself is left as it was.
C13_MapPreserves ==
    /\ [](Mapped =>
            /\ job.value.versionNames = sources.versionNames
            /\ DOMAIN job.value.versions = DOMAIN sources.versions
            /\ \A v \in DOMAIN sources.versions :
                  /\ job.value.versions[v].versionName = v
                  /\ job.value.versions[v].installScriptNames = sources.versions[v].installScriptNames
                  /\ job.value.versions[v].rollbackScriptNames = sources.versions[v].rollbackScriptNames
            /\ Tuples(job.value) = Tuples(sources)
            /\ \A t \in Tuples(sources) :
                  LET old == ScriptAt(sources, t)
                      new == ScriptAt(job.value, t)
                  IN /\ new.name = old.name
                     /\ new.kind = old.kind
                     /\ new.file = old.file
                     /\ new.content = callbackfn(job.fn, old.content, t))
    /\ [][job'.op = "map" => sources' = sources]_vars

C13_Witness ==
    /\ Mapped
    /\ job.fn = "info"
    /\ sources.versionNames = <<V0002, VXXXX>>
    /\ getInstallScript(getVersionBundle(sources, VXXXX), F9txt).content
          = PathJoin(PathJoin(VXXXX, DirInstall), F9txt)
    /\ getInstallScript(getVersionBundle(job.value, VXXXX), F9txt).content
          = VXXXX \o <<58>> \o DirInstall \o <<58>> \o F9txt
    /\ getInstallScript(getVersionBundle(job.value, VXXXX), F9txt).kind = "UNKNOWN"

\* the callback sees tuple a before tuple b
VisitedBefore(a, b) ==
    \/ StrLess(a.versionName, b.versionName)
    \/ /\ a.versionName = b.versionName
       /\ \/ a.direction = DirInstall /\ b.direction = DirRollback
          \/ a.direction = b.direction /\ StrLess(a.itemName, b.itemName)

\* C14: map(fn) invokes fn exactly once per (version, direction, script name) tuple of the
\* sources and for no other tuple, with that script's content; the visit order is versions
\* ascending, and within a version the install scripts in ascending name order followed by
\* the rollback scripts in ascending name order.
C14_MapperTotality ==
    Mapped =>
        /\ {job.calls[i].info : i \in 1..Len(job.calls)} = Tuples(sources)
        /\ Len(job.calls) = Cardinality(Tuples(sources))
        /\ \A i \in 1..Len(job.calls) :
              job.calls[i].content = ScriptAt(sources, job.calls[i].info).content
        /\ \A i \in 1..Len(job.calls) : \A k \in (i + 1)..Len(job.calls) :
              VisitedBefore(job.calls[i].info, job.calls[k].info)

C14_Witness ==
    /\ Mapped
    /\ sources.versionNames = <<V0001, V0002>>
    /\ [i \in 1..Len(job.calls) |-> job.calls[i].info.itemName]
          = <<F1sql, F2js, F1sql, F2js, F10sql, F9sql, F10sql, F9txt>>
    /\ job.calls[3].info = [versionName |-> V0001, direction |-> DirRollback, itemName |-> F1sql]

\* the names of a MigrationSources and of its bundles are strictly ascending and list what
\* the maps hold
SortedNames(src) ==
    /\ StrictlyAscending(src.versionNames)
    /\ Range(src.versionNames) = DOMAIN src.versions
    /\ \A v \in DOMAIN src.versions :
          /\ StrictlyAscending(src.versions[v].installScriptNames)
          /\ StrictlyAscending(src.versions[v].rollbackScriptNames)
          /\ Range(src.versions[v].installScriptNames) = DOMAIN src.versions[v].installScripts
          /\ Range(src.versions[v].rollbackScriptNames) = DOMAIN src.versions[v].rollbackScripts

\* C15: versionNames, installScriptNames and rollbackScriptNames of every MigrationSources the
\* host gets (from load, from map) and of every VersionBundle constructed on the way are
\* sorted strictly ascending by code unit, whatever the order in which the host file system
\* listed the directories and files; the loaded names are exactly the listed ones.
C15_NamesSorted ==
    /\ SortedNames(sources)
    /\ SortedNames(job.value)
    /\ \A i \in 1..Len(job.migrationBundles) :
          /\ StrictlyAscending(job.migrationBundles[i].installScriptNames)
          /\ StrictlyAscending(job.migrationBundles[i].rollbackScriptNames)
    /\ (job.op = "load" /\ job.outcome = "ok") =>
          /\ Range(sources.versionNames) = Range(job.listVersions)
          /\ Len(sources.versionNames) = Len(job.listVersions)
          /\ sources.versionNames = Sort(job.listVersions)

C15_Witness ==
    /\ job.op = "load"
    /\ job.outcome = "ok"
    /\ job.listVersions = <<VXXXX, V0002>>
    /\ job.migrationFiles = <<F9txt, F10sql>>
    /\ sources.versionNames = <<V0002, VXXXX>>
    /\ getVersionBundle(sources, V0002).rollbackScriptNames = <<F10sql, F9txt>>
    /\ getVersionBundle(sources, V0002).installScriptNames = <<F10sql, F9sql>>

Saved == job.op = "save" /\ job.outcome = "ok"

\* the layout of a migration directory: version directories under the root, install and
\* rollback directories under a version directory, regular files under these
ValidTree(f, root) ==
    /\ exists(f, root)
    /\ \A node \in Below(f, root) :
          LET depth == Cardinality({i \in 1..Len(node.path) : node.path[i] = 47}) + 1
          IN /\ depth <= 3
             /\ node.dir <=> depth <= 2
             /\ depth = 2 => Basename(node.path) \in Directions

\* every version directory holds both an install and a rollback directory
BothDirections(f, root) ==
    \A v \in {n \in Entries(f, root) : f[PathJoin(root, n)].dir} :
        Directions \subseteq Entries(f, VersionDir(root, v))

\* C16 as stated: for any valid source tree under RootDir, loadFromFilesystem followed by
\* saveToFilesystem into the empty directory DestDir leaves under DestDir a tree equal to
\* the one under RootDir: the same directories, the same file names, the same file contents.
C16_RoundTrip ==
    (Saved /\ ValidTree(fs, RootDir)) => Below(fs, DestDir) = Below(fs, RootDir)

\* C16, amended: the round trip gives back the tree when, in addition, every version
\* directory of the valid source tree holds both an install and a rollback directory;
\* saveToFilesystem creates both for every version, so a tree that lacks one comes back
\* with one directory more.
C16_RoundTripBothDirections ==
    /\ (Saved /\ ValidTree(fs, RootDir) /\ BothDirections(fs, RootDir))
          => Below(fs, DestDir) = Below(fs, RootDir)
    /\ (Saved /\ ValidTree(fs, RootDir)) =>
          /\ {n \in Below(fs, DestDir) : ~n.dir} = {n \in Below(fs, RootDir) : ~n.dir}
          /\ Below(fs, RootDir) \subseteq Below(fs, DestDir)
          /\ BothDirections(fs, DestDir)

C16_Witness ==
    /\ Saved
    /\ ValidTree(fs, RootDir)
    /\ BothDirections(fs, RootDir)
    /\ sources.versionNames = <<V0002, V10>>
    /\ Cardinality(Below(fs, DestDir)) = 11
    /\ [path |-> PathJoin(PathJoin(V0002, DirRollback), F9txt), dir |-> FALSE,
        content |-> PathJoin(PathJoin(V0002, DirRollback), F9txt)] \in Below(fs, DestDir)

\* the MigrationSources.load in progress or finished was given this protocol
Loading(protocols) == job.op = "load" /\ job.uri.protocol \in protocols

\* C17 as stated: load dispatches on the scheme: "file" goes to loadFromFilesystem;
\* "http+tar+gz" and "https+tar+gz" fail with an error of a not-implemented kind, any other
\* scheme fails with NotSupportedUrlSchema, and a caller can tell these two failures from
\* each other and from InvalidOperation.
C17_LoadDispatch ==
    /\ Loading({"file:"}) =>
          (job.pc # "l_exists" => (job.io # <<>> /\ job.io[1] = Io("exists", job.uri.pathname)))
    /\ Loading({"http+tar+gz:", "https+tar+gz:"}) =>
          /\ job.outcome = "failed"
          /\ job.io = <<>>
          /\ ~InstanceOf(error, "NotSupportedUrlSchemaError")
          /\ ~InstanceOf(error, "InvalidOperationError")
    /\ Loading({"ftp:"}) =>
          /\ job.outcome = "failed"
          /\ job.io = <<>>
          /\ InstanceOf(error, "NotSupportedUrlSchemaError")
          /\ error # "InvalidOperationError"

\* C18 as stated: loadFromFilesystem on a root directory that does not exist fails with
\* WrongMigrationData, an error that a caller catching the generic Migration failure
\* (MigrationManager.MigrationError) catches; no MigrationSources is produced.
C18_MissingRootIsMigrationError ==
    (Loading({"file:"}) /\ job.pc = "done" /\ ~exists(fs, job.dir)) =>
        /\ job.outcome = "failed"
        /\ InstanceOf(error, "MigrationSources.WrongMigrationDataError")
        /\ InstanceOf(error, "MigrationManager.MigrationError")
        /\ job.io = <<Io("exists", job.dir)>>

\* C19: saveToFilesystem with a destination directory that does not exist rejects with
\* ArgumentError("destinationDirectory") after its exists() and changes nothing in the file
\* system; saveToFilesystem never creates the destination directory: everything it creates
\* lies below a destination that exists.
C19_SaveNeedsDestination ==
    /\ []((job.op = "save" /\ ~exists(fs, job.dir)) =>
             /\ job.pc \in {"s_exists", "done"}
             /\ (job.pc = "done") =>
                   /\ job.outcome = "failed"
                   /\ error = "ArgumentError"
                   /\ job.paramName = "destinationDirectory"
                   /\ job.io = <<Io("exists", job.dir)>>)
    /\ [][job'.op = "save" =>
             /\ (~exists(fs, job'.dir)) => fs' = fs
             /\ exists(fs', job'.dir) <=> exists(fs, job'.dir)
             /\ \A p \in DOMAIN fs' \ DOMAIN fs :
                   /\ exists(fs, job'.dir)
                   /\ Len(p) > Len(job'.dir) + 1
                   /\ SubSeq(p, 1, Len(job'.dir) + 1) = job'.dir \o <<47>>]_vars

C19_Witness ==
    /\ job.op = "save"
    /\ job.outcome = "failed"
    /\ error = "ArgumentError"
    /\ ~exists(fs, DestDir)
    /\ Len(sources.versionNames) = 2

-----------------------------------------------------------------------------
(* A MigrationLogger used on its own: a wrapped logger, calls at any severity, flush() *)

MaxLoggerCalls == 4

Levels == {"trace", "debug", "info", "warn", "error", "fatal"}

\* the messages logged: "", "m" and "Execute SQL script: 1.sql"
LoggerMessages == {<<>>, <<Str(<<109>>)>>, <<Lit("Execute SQL script: "), Str(F1sql)>>}

\* new MigrationLogger(wrap): no line captured, nothing forwarded yet
LoggerInit ==
    /\ sources = MigrationSources(<<>>)
    /\ db = [tableExists |-> FALSE, logs |-> [v \in {} |-> <<>>], effects |-> {}]
    /\ budget = MaxLoggerCalls
    /\ pc = "idle"
    /\ call = NoCall
    /\ tx = NoTransaction(db)
    /\ scopes = 0
    /\ inflight = {}
    /\ lines = <<>>
    /\ wraplog = <<>>
    /\ events = <<>>
    /\ result = "none"
    /\ cancellationToken = FALSE
    /\ error = "none"
    /\ fs = NoFiles
    /\ job = NoJob

\* MigrationLogger.trace .. fatal: forward to the wrapped logger, then push the line
MigrationLoggerCall(level, message) ==
    /\ budget > 0
    /\ budget' = budget - 1
    /\ Log(<<>>, <<<<level, message>>>>)
    /\ Capture(<<<<level, message>>>>)
    /\ UNCHANGED <<cancellationToken, fs, job, sources, db, pc, call, tx, scopes, inflight,
                   events, result, error>>

\* flush() that reads the buffer with slice(0) and so leaves the lines in it
MigrationLoggerFlush_slice ==
    /\ budget > 0
    /\ budget' = budget - 1
    /\ events' = Append(events, Ev("flush", NULL, flush(lines)))
    /\ UNCHANGED <<cancellationToken, fs, job, sources, db, pc, call, tx, scopes, inflight,
                   lines, wraplog, result, error>>

\* MigrationLogger.flush(): return the lines joined by EOL and empty the buffer
MigrationLoggerFlush ==
    /\ budget > 0
    /\ budget' = budget - 1
    /\ events' = Append(events, Ev("flush", NULL, flush(lines)))
    /\ lines' = <<>>
    /\ UNCHANGED <<cancellationToken, fs, job, sources, db, pc, call, tx, scopes, inflight,
                   wraplog, result, error>>

LoggerNext ==
    \/ \E level \in Levels, message \in LoggerMessages : MigrationLoggerCall(level, message)
    \/ MigrationLoggerFlush

LoggerSpec == LoggerInit /\ [][LoggerNext]_vars

\* the severity in capitals, in brackets, followed by one space
BracketedTag(level) ==
    CASE level = "trace" -> "[TRACE] "
      [] level = "debug" -> "[DEBUG] "
      [] level = "info" -> "[INFO] "
      [] level = "warn" -> "[WARN] "
      [] level = "error" -> "[ERROR] "
      [] level = "fatal" -> "[FATAL] "

\* C20 as stated: every call of the capture logger, at each of the six severities, is
\* forwarded to the wrapped logger and appends one line to the buffer, the line being the
\* severity tag in brackets, exactly one space, then the message; the lines are in call
\* order (the buffer holds the lines of the calls made since the last flush).
C20_CaptureLines ==
    /\ Len(wraplog) + Len(events) = MaxLoggerCalls - budget
    /\ Len(lines) <= Len(wraplog)
    /\ events = <<>> => Len(lines) = Len(wraplog)
    /\ \A i \in 1..Len(lines) :
          LET forwarded == wraplog[Len(wraplog) - Len(lines) + i]
          IN lines[i] = <<Lit(BracketedTag(forwarded.level))>> \o forwarded.message

\* the lines of a text returned by flush(): the pieces between its EOLs, none for ""
RECURSIVE SplitEOL(_, _)
SplitEOL(text, line) ==
    IF text = <<>> THEN (IF line = <<>> THEN <<>> ELSE <<line>>)
    ELSE IF Head(text) = EOL THEN <<line>> \o SplitEOL(Tail(text), <<>>)
    ELSE SplitEOL(Tail(text), Append(line, Head(text)))

\* the lines returned by the flushes so far, one flush after the other
RECURSIVE Flushed(_)
Flushed(evs) ==
    IF evs = <<>> THEN <<>>
    ELSE (IF Head(evs).e = "flush" THEN SplitEOL(Head(evs).s, <<>>) ELSE <<>>) \o Flushed(Tail(evs))

\* C21: flush() returns the lines appended since construction or the previous flush, in
\* order, joined by EOL, and empties the buffer. The lines returned by all flushes so far,
\* followed by the lines still buffered, are the lines of the calls made, each once and in
\* call order (no line is returned by two flushes); a flush right after a flush returns "".
C21_FlushReturnsAndResets ==
    /\ [](Flushed(events) \o lines =
             [i \in 1..Len(wraplog) |-> CaptureLine(wraplog[i].level, wraplog[i].message)])
    /\ [][Len(events') > Len(events) =>
             /\ events' = Append(events, Ev("flush", NULL, Join(lines)))
             /\ SplitEOL(Join(lines), <<>>) = lines
             /\ lines' = <<>>
             /\ wraplog' = wraplog
             /\ (events # <<>> /\ Len(Flushed(events)) = Len(wraplog)) =>
                    events'[Len(events')].s = <<>>]_vars

C21_Witness ==
    /\ Len(events) = 2
    /\ Len(wraplog) = 2
    /\ lines = <<>>
    /\ events[1].e = "flush"
    /\ events[2].e = "flush"
    /\ \E i \in 1..Len(events[1].s) : events[1].s[i] = EOL
    /\ events[2].s = <<>>

-----------------------------------------------------------------------------
(* Claims about the lookups by name *)

\* names asked for: every version and script name in use, and two that are never keys
NamesAsked == VersionUniverse \cup {F1sql, F2js, F9sql, F10sql, F9txt, <<>>, DirInstall}

Listed(names, n) == \E i \in 1..Len(names) : names[i] = n

Fails(value, paramName) == value = ArgumentError(paramName)

\* C22: getVersionBundle(name) returns the bundle named name for every name in versionNames
\* and fails with ArgumentError for every other name; getInstallScript and getRollbackScript
\* do the same for the names in installScriptNames and rollbackScriptNames. The versions that
\* install and rollback schedule, and the script names they walk through, are listed names,
\* so none of their lookups fails.
C22_LookupsByName ==
    /\ \A n \in NamesAsked :
          IF Listed(sources.versionNames, n)
          THEN /\ ~Fails(getVersionBundle(sources, n), "versionName")
               /\ getVersionBundle(sources, n).versionName = n
          ELSE Fails(getVersionBundle(sources, n), "versionName")
    /\ \A i \in 1..Len(sources.versionNames), n \in NamesAsked :
          LET bundle == getVersionBundle(sources, sources.versionNames[i])
          IN /\ IF Listed(bundle.installScriptNames, n)
                THEN /\ ~Fails(getInstallScript(bundle, n), "itemName")
                     /\ getInstallScript(bundle, n).name = n
                ELSE Fails(getInstallScript(bundle, n), "itemName")
             /\ IF Listed(bundle.rollbackScriptNames, n)
                THEN /\ ~Fails(getRollbackScript(bundle, n), "itemName")
                     /\ getRollbackScript(bundle, n).name = n
                ELSE Fails(getRollbackScript(bundle, n), "itemName")
    /\ \A i \in 1..Len(call.schedule) : Listed(sources.versionNames, call.schedule[i])
    /\ pc \in {"i_scripts", "r_scripts"} =>
          /\ Listed(sources.versionNames, call.version)
          /\ \A i \in 1..Len(call.names) :
                LET bundle == getVersionBundle(sources, call.version)
                IN IF pc = "i_scripts"
                   THEN ~Fails(getInstallScript(bundle, call.names[i]), "itemName")
                   ELSE ~Fails(getRollbackScript(bundle, call.names[i]), "itemName")

C22_Witness ==
    /\ pc = "r_scripts"
    /\ call.version = V0002
    /\ call.si = 2
    /\ getRollbackScript(getVersionBundle(sources, V0002), call.names[1]).name = F9txt
    /\ Fails(getInstallScript(getVersionBundle(sources, V0002), F9txt), "itemName")
    /\ Fails(getVersionBundle(sources, V9), "versionName")

-----------------------------------------------------------------------------
(* Claims about the version table *)

EventNames == [i \in 1..Len(events) |-> events[i].e]

Occurs(e) == \E i \in 1..Len(events) : events[i].e = e

Appended(e) == Len(events') > Len(events) /\ events'[Len(events) + 1].e = e

\* C23: install makes sure the version table exists before it opens the first version
\* transaction. After reading the current version it opens a provider scope without
\* transaction, asks isVersionTableExist and calls createVersionTable exactly when the answer
\* was false, then closes the scope; it does so on every call, with an empty schedule too.
C23_TableEnsuredFirst ==
    /\ []((call.op = "install" /\ (Occurs("begin") \/ result = "ok")) =>
             /\ db.tableExists
             /\ Len(events) >= 4
             /\ \/ SubSeq(EventNames, 1, 4) =
                      <<"getCurrentVersion", "open", "isVersionTableExist", "close">>
                \/ /\ Len(events) >= 5
                   /\ SubSeq(EventNames, 1, 5) =
                         <<"getCurrentVersion", "open", "isVersionTableExist",
                           "createVersionTable", "close">>)
    /\ [][(call'.op = "install" /\ Appended("createVersionTable")) =>
              (/\ ~db.tableExists
               /\ db'.tableExists
               /\ Last(events).e = "isVersionTableExist"
               /\ scopes = 1
               /\ ~tx.open)]_vars
    /\ [][(call'.op = "install" /\ Appended("close") /\ Last(events).e = "isVersionTableExist")
              => db.tableExists]_vars
    /\ [][(call'.op = "install" /\ Appended("begin")) => (db.tableExists /\ scopes = 0)]_vars

C23_Witness ==
    /\ call.op = "install"
    /\ result = "ok"
    /\ call.schedule = <<>>
    /\ sources.versionNames # <<>>
    /\ EventNames = <<"getCurrentVersion", "open", "isVersionTableExist",
                      "createVersionTable", "close">>

\* C24 as stated: install invokes the verifyVersionTableStructure hook when, and only when,
\* isVersionTableExist returned true: a version table that was already there is verified
\* inside the same provider scope, a freshly created one is not.
C24_VerifyExistingTable ==
    (call.op = "install" /\ Occurs("isVersionTableExist") /\ pc \notin {"i_isVersionTableExist", "idle"}) =>
        (Occurs("verifyVersionTableStructure") <=> ~Occurs("createVersionTable"))

-----------------------------------------------------------------------------
(* Claims about what is logged for a version *)

\* the lines captured for messages logged through a MigrationLogger
Captured(messages) == [i \in 1..Len(messages) |-> CaptureLine(messages[i][1], messages[i][2])]

\* for an SQL script one info entry and one trace entry; for the other kinds what is logged
MessagesOnce(version, script) ==
    IF script.kind = "SQL"
    THEN << <<"info", MsgExecuteSql(script)>>, <<"trace", MsgContent(script.content)>> >>
    ELSE ScriptMessages(version, script)

RECURSIVE LinesOnce(_, _)
LinesOnce(version, names) ==
    IF names = <<>> THEN <<>>
    ELSE Captured(MessagesOnce(version,
                               getInstallScript(getVersionBundle(sources, version), Head(names))))
         \o LinesOnce(version, Tail(names))

\* C25 as stated: for each SQL install script the engine logs one info entry "Execute SQL
\* script: <name>", then one trace entry of EOL and the content, then submits the content
\* once; so the lines captured for a version, and the logText stored for it, hold exactly one
\* INFO line and one TRACE entry per SQL script.
C25_SqlScriptLoggedOnce ==
    Called("install") =>
        /\ pc = "i_scripts" => lines = LinesOnce(call.version, DispatchedNames(call.version))
        /\ \A v \in Range(call.schedule) :
              (EventIdx({"commit"}, v) # {} /\ v \in DOMAIN db.logs) =>
                  db.logs[v] = Join(LinesOnce(v, getVersionBundle(sources, v).installScriptNames))

\* the lines logged while the install scripts names of a version are processed, in order
RECURSIVE LinesOf(_, _)
LinesOf(version, names) ==
    IF names = <<>> THEN <<>>
    ELSE Captured(ScriptMessages(version,
                                 getInstallScript(getVersionBundle(sources, version), Head(names))))
         \o LinesOf(version, Tail(names))

\* what the wrapped logger's child named version has received so far
ForwardedTo(version) == SelectSeq(wraplog, LAMBDA entry : entry.logger = version)

\* C26: each install version transaction has a capture logger of its own. While version V
\* is processed the buffer holds the lines of V's scripts dispatched so far in this
\* transaction and nothing else; the logText stored for V is the lines logged while V's
\* scripts were processed, in order, without any line of another version or of an earlier
\* transaction of V that failed.
C26_FreshLoggerPerVersion ==
    /\ (Called("install") /\ pc = "i_scripts") =>
          lines = LinesOf(call.version, DispatchedNames(call.version))
    /\ \A v \in DOMAIN db.logs :
          db.logs[v] = Join(LinesOf(v, getVersionBundle(sources, v).installScriptNames))
    /\ \A v \in DOMAIN tx.logs :
          tx.logs[v] = Join(LinesOf(v, getVersionBundle(sources, v).installScriptNames))

\* v0001 installed by the second invocation, after a first one that failed while in v0001
C26_Witness ==
    /\ Called("install")
    /\ budget = 0
    /\ result = "ok"
    /\ DOMAIN db.logs = {V0001, V0002}
    /\ Len(ForwardedTo(V0001)) > Len(LinesOf(V0001, <<F1sql, F2js>>))
    /\ db.logs[V0001] = Join(LinesOf(V0001, <<F1sql, F2js>>))

-----------------------------------------------------------------------------
(* Claims about embedded scripts and about what runs at the same time *)

\* C27: for a script of kind JAVASCRIPT the engine awaits the settlement of the promise of
\* migration(cancel, sqlProvider, logger) before it goes on: nothing else is dispatched and
\* no log row is written while the script is pending. When evaluating the script throws, or
\* the promise rejects, the version's transaction is aborted, nothing of the version is in
\* the database, and the invocation ends failed with that rejection.
C27_JavaScriptAwaited ==
    \A j \in 1..Len(events) :
        (events[j].e = "start" /\ ScriptOf(events[j].v, events[j].s).kind = "JAVASCRIPT") =>
            /\ InOwnScope(j)
            /\ IF j = Len(events)
               THEN /\ inflight = {EffectOf(events[j].v, events[j].s)}
                    /\ tx.open
                    /\ result = "running"
               ELSE /\ events[j + 1].e \in {"done", "fail"}
                    /\ events[j + 1].v = events[j].v
                    /\ events[j + 1].s = events[j].s
            /\ (j < Len(events) /\ events[j + 1].e = "fail") =>
                  /\ Len(events) = j + 2
                  /\ events[j + 2] = Ev("abort", events[j].v, <<>>)
                  /\ result = "failed"
                  /\ error \in {"Error", "CancelledError"}
                  /\ pc = "idle"
                  /\ ~tx.open
                  /\ scopes = 0
                  /\ db = tx.base
                  /\ \A f \in db.effects : f.v # events[j].v
                  /\ call.op = "install" => events[j].v \notin DOMAIN db.logs

C27_Witness ==
    /\ call.op = "install"
    /\ result = "failed"
    /\ error = "Error"
    /\ Len(events) >= 3
    /\ events[Len(events) - 2] = Ev("start", V0001, F2js)
    /\ events[Len(events) - 1] = Ev("fail", V0001, F2js)
    /\ Last(events) = Ev("abort", V0001, <<>>)
    /\ Effect(V0001, DirInstall, F1sql) \in tx.effects
    /\ db.effects = {}

Opens == {"open", "begin"}
Closes == {"close", "commit", "abort"}

\* C28: during one invocation of install or rollback at most one provider scope is open and
\* at most one script or statement is in flight, and only inside an open transaction. The
\* connection of the table check is released before the first version transaction opens, and
\* each version's transaction is closed (committed or aborted) before the next one opens.
C28_OneScopeOneScript ==
    /\ scopes \in {0, 1}
    /\ Cardinality(inflight) <= 1
    /\ inflight # {} => (scopes = 1 /\ tx.open)
    /\ tx.open => scopes = 1
    /\ scopes = Cardinality({i \in 1..Len(events) : events[i].e \in Opens})
                - Cardinality({i \in 1..Len(events) : events[i].e \in Closes})
    /\ \A i, j \in 1..Len(events) :
          (i < j /\ events[i].e \in Opens /\ events[j].e \in Opens) =>
              \E k \in (i + 1)..(j - 1) : events[k].e \in Closes
    /\ \A i, j \in 1..Len(events) :
          (i < j /\ events[i].e = "start" /\ events[j].e = "start") =>
              \E k \in (i + 1)..(j - 1) :
                  events[k].e = "done" /\ events[k].v = events[i].v /\ events[k].s = events[i].s

C28_Witness ==
    /\ call.op = "install"
    /\ scopes = 1
    /\ Cardinality(inflight) = 1
    /\ Len(Begins) = 2
    /\ Occurs("createVersionTable")
    /\ Cardinality({i \in 1..Len(events) : events[i].e = "start"}) >= 3

-----------------------------------------------------------------------------
(* Claims about cancellation of load and save *)

\* position i of the I/O trace comes right after a cancellation check
Checked(i) == i > 1 /\ job.io[i - 1].op = "check"

IoAt(ops) == {i \in 1..Len(job.io) : job.io[i].op \in ops}

\* C29 as stated: loadFromFilesystem checks the cancellation handle before every file system
\* operation (each exists, each readdir, each readFile); called with cancellation already
\* requested it fails with Cancelled without any file system I/O, whatever the tree, a tree
\* without version directories included.
C29_LoadChecksBeforeEveryIo ==
    (job.op = "load" /\ job.uri.protocol = "file:") =>
        /\ \A i \in IoAt({"exists", "readdir", "readFile"}) : Checked(i)
        /\ job.cancelled =>
              /\ job.io = <<>>
              /\ job.pc = "done" => (job.outcome = "failed" /\ error = "CancelledError")

SaveHasWork ==
    \/ job.pc \in {"s_mkdirInstall", "s_mkdirRollback", "s_file"}
    \/ job.pc = "s_version" /\ job.vi <= Len(sources.versionNames)

-----------------------------------------------------------------------------
(* Claims about what loadFromFilesystem reads *)

Loaded == job.op = "load" /\ job.uri.protocol = "file:" /\ job.pc = "done"

\* the scripts a direction of a loaded bundle must hold for directory dir of the tree
ScriptsMatch(scripts, names, dir) ==
    IF ~exists(fs, dir) THEN scripts = <<>> /\ names = <<>>
    ELSE /\ DOMAIN scripts = {n \in Entries(fs, dir) : ~fs[PathJoin(dir, n)].dir}
         /\ Range(names) = DOMAIN scripts
         /\ \A n \in DOMAIN scripts :
               /\ scripts[n].name = n
               /\ scripts[n].file = PathJoin(dir, n)
               /\ scripts[n].content = fs[PathJoin(dir, n)].content

LoadedMatchesTree ==
    /\ Range(sources.versionNames) = {n \in Entries(fs, job.dir) : fs[PathJoin(job.dir, n)].dir}
    /\ DOMAIN sources.versions = Range(sources.versionNames)
    /\ \A v \in DOMAIN sources.versions :
          LET bundle == sources.versions[v]
          IN /\ bundle.versionName = v
             /\ ScriptsMatch(bundle.installScripts, bundle.installScriptNames,
                             DirectionDir(job.dir, v, DirInstall))
             /\ ScriptsMatch(bundle.rollbackScripts, bundle.rollbackScriptNames,
                             DirectionDir(job.dir, v, DirRollback))

\* an entry of some install or rollback directory of the tree is a directory
NestedDirectory ==
    \E v \in Entries(fs, job.dir), d \in Directions :
        \E n \in Entries(fs, DirectionDir(job.dir, v, d)) :
            fs[PathJoin(DirectionDir(job.dir, v, d), n)].dir

\* C31: loadFromFilesystem yields one version per child directory of the root and none for
\* a child that is not a directory; the install (rollback) set of a version holds one script
\* per file of V/install (V/rollback), named by the file's base name, with the file's path
\* and content, and is empty when that directory is absent, which does not make the load
\* fail.
C31_LoadedVersionsAndScripts ==
    Loaded =>
        /\ job.outcome = "ok" => LoadedMatchesTree
        /\ (exists(fs, job.dir) /\ ~NestedDirectory /\ error # "CancelledError")
              => job.outcome = "ok"

C31_Witness ==
    /\ Loaded
    /\ job.outcome = "ok"
    /\ exists(fs, PathJoin(RootDir, README))
    /\ sources.versionNames = <<V10, V9>>
    /\ ~exists(fs, DirectionDir(RootDir, V10, DirRollback))
    /\ ~exists(fs, DirectionDir(RootDir, V9, DirInstall))
    /\ sources.versions[V10].rollbackScriptNames = <<>>
    /\ sources.versions[V10].installScripts[F1sql].file
          = PathJoin(DirectionDir(RootDir, V10, DirInstall), F1sql)

\* C32 as stated: when it scans V/install and V/rollback, loadFromFilesystem turns only
\* regular files into scripts; an entry that is not a regular file, a nested directory for
\* one, gives no script and does not make the load fail.
C32_OnlyRegularFiles ==
    (Loaded /\ exists(fs, job.dir) /\ error # "CancelledError") =>
        /\ job.outcome = "ok"
        /\ LoadedMatchesTree

-----------------------------------------------------------------------------
(* Claims about the kind of a script *)

EndsWith(s, suffix) ==
    Len(s) >= Len(suffix) /\ SubSeq(s, Len(s) - Len(suffix) + 1, Len(s)) = suffix

\* the kind by the extension of the file name: the extension is what starts at the last "."
\* of the name, and a name that only starts with a "." has none
KindOfName(name) ==
    IF EndsWith(name, ExtSql) /\ Len(name) > Len(ExtSql) THEN "SQL"
    ELSE IF EndsWith(name, ExtJs) /\ Len(name) > Len(ExtJs) THEN "JAVASCRIPT"
    ELSE "UNKNOWN"

KindsFollowNames(src) ==
    \A v \in DOMAIN src.versions :
        /\ \A n \in DOMAIN src.versions[v].installScripts :
              src.versions[v].installScripts[n].kind = KindOfName(n)
        /\ \A n \in DOMAIN src.versions[v].rollbackScripts :
              src.versions[v].rollbackScripts[n].kind = KindOfName(n)

\* C33: the kind of a script depends on the extension of its file name only, compared with
\* regard to case: ".sql" gives SQL, ".js" gives JAVASCRIPT, every other extension, ".SQL",
\* ".Js" and no extension included, gives UNKNOWN; map never changes the kind.
C33_KindByExtension ==
    /\ KindsFollowNames(sources)
    /\ (job.op = "map" /\ job.outcome = "ok") =>
          /\ KindsFollowNames(job.value)
          /\ DOMAIN job.value.versions = DOMAIN sources.versions
    /\ resolveScriptKindByExtension(<<47, 109, 47, 118, 46, 115, 113, 108, 47, 115>>) = "UNKNOWN"

\* "1.SQL" loaded and mapped: its kind is UNKNOWN before and after
C33_Witness ==
    /\ job.op = "map"
    /\ job.outcome = "ok"
    /\ job.fn = "info"
    /\ DOMAIN sources.versions[V10].installScripts = {<<49, 46, 83, 81, 76>>}
    /\ job.value.versions[V10].installScripts[<<49, 46, 83, 81, 76>>].kind = "UNKNOWN"
    /\ job.value.versions[V10].installScripts[<<49, 46, 83, 81, 76>>].content
          # sources.versions[V10].installScripts[<<49, 46, 83, 81, 76>>].content

-----------------------------------------------------------------------------
(* Claims about the instances of MigrationSources and VersionBundle *)

Values(f) == {f[k] : k \in DOMAIN f}

\* every object a VersionBundle or a MigrationSources holds, directly or through a field
ReachBundle(heap, b) ==
    {b, heap[b].installScriptNames, heap[b].rollbackScriptNames, heap[b]._installScripts,
     heap[b]._rollbackScripts}
    \cup Values(heap[heap[b]._installScripts].entries)
    \cup Values(heap[heap[b]._rollbackScripts].entries)

Reach(heap, ref) ==
    IF heap[ref].class = "VersionBundle" THEN ReachBundle(heap, ref)
    ELSE {ref, heap[ref]._versions, heap[ref].versionNames}
         \cup UNION {ReachBundle(heap, b) : b \in Values(heap[heap[ref]._versions].entries)}

\* what the public members of an object show
BundleView(heap, b) ==
    [versionName |-> heap[b].versionName,
     installScriptNames |-> heap[heap[b].installScriptNames].items,
     rollbackScriptNames |-> heap[heap[b].rollbackScriptNames].items,
     installScripts |-> [n \in DOMAIN heap[heap[b]._installScripts].entries |->
                            heap[heap[heap[b]._installScripts].entries[n]]],
     rollbackScripts |-> [n \in DOMAIN heap[heap[b]._rollbackScripts].entries |->
                             heap[heap[heap[b]._rollbackScripts].entries[n]]]]

View(heap, ref) ==
    IF heap[ref].class = "VersionBundle" THEN BundleView(heap, ref)
    ELSE [versionNames |-> heap[heap[ref].versionNames].items,
          versions |-> [v \in DOMAIN heap[heap[ref]._versions].entries |->
                           BundleView(heap, heap[heap[ref]._versions].entries[v])]]

\* C34: map of a MigrationSources and map of a VersionBundle leave the object they are called
\* on as it was, whatever the callback: its versionNames, script names and script contents
\* are the same after the call, no object that existed before is written, and the result is
\* another instance that holds none of the objects the receiver holds.
C34_MapLeavesReceiver ==
    [][job'.op = "map" =>
          /\ job'.receiver = job.value
          /\ job'.value # job'.receiver
          /\ SubSeq(job'.heap, 1, Len(job.heap)) = job.heap
          /\ View(job'.heap, job'.receiver) = View(job.heap, job.value)
          /\ Reach(job'.heap, job'.value) \cap Reach(job'.heap, job'.receiver) = {}]_vars

\* a loaded MigrationSources of two versions mapped with the callback that returns the content
\* it was given: the result shows the same as the receiver and is another instance
C34_Witness ==
    /\ job.op = "map"
    /\ job.fn = "same"
    /\ job.heap[job.receiver].class = "MigrationSources"
    /\ job.heap[job.heap[job.receiver].versionNames].items = <<V0001, VXXXX>>
    /\ View(job.heap, job.value) = View(job.heap, job.receiver)
    /\ job.value # job.receiver
    /\ Cardinality(Reach(job.heap, job.receiver)) > 10

NoDuplicates(s) == \A i, j \in 1..Len(s) : s[i] = s[j] => i = j

\* a frozen array of names against the Map behind it: no name twice, the names are the keys,
\* and the object under a name carries that name
NamesResolve(heap, names, map_, field) ==
    /\ NoDuplicates(heap[names].items)
    /\ Range(heap[names].items) = DOMAIN heap[map_].entries
    /\ \A n \in DOMAIN heap[map_].entries : heap[heap[map_].entries[n]][field] = n

UniqueNames(heap) ==
    \A r \in DOMAIN heap :
        /\ heap[r].class = "VersionBundle" =>
              /\ NamesResolve(heap, heap[r].installScriptNames, heap[r]._installScripts, "name")
              /\ NamesResolve(heap, heap[r].rollbackScriptNames, heap[r]._rollbackScripts, "name")
        /\ heap[r].class = "MigrationSources" =>
              NamesResolve(heap, heap[r].versionNames, heap[r]._versions, "versionName")

\* of the items passed to the constructor, the last one of each name is the one under the name
LastItemKept(heap, items, map_) ==
    \A i \in 1..Len(items) :
        (\A j \in (i + 1)..Len(items) : heap[items[j]].name # heap[items[i]].name)
            => heap[map_].entries[heap[items[i]].name] = items[i]

\* the MigrationSources constructor given two bundles of one version name
TwoBundlesOneName ==
    LET first == new_VersionBundle(<<>>, V0001, <<>>, <<>>)
        second == new_VersionBundle(first.heap, V0001, <<>>, <<>>)
        src == new_MigrationSources(second.heap, <<first.ref, second.ref>>)
    IN /\ src.heap[src.heap[src.ref].versionNames].items = <<V0001>>
       /\ src.heap[src.heap[src.ref]._versions].entries = (V0001 :> second.ref)

\* C35: installScriptNames, rollbackScriptNames and versionNames never hold a name twice, and
\* every listed name resolves to one script or bundle that carries this name, also when the
\* constructor is given several items of one name: the later item replaces the earlier one.
C35_NamesUnique ==
    /\ UniqueNames(job.heap)
    /\ job.op = "new" =>
          /\ LastItemKept(job.heap, job.installItems, job.heap[job.value]._installScripts)
          /\ LastItemKept(job.heap, job.rollbackItems, job.heap[job.value]._rollbackScripts)
    /\ TwoBundlesOneName

\* a VersionBundle built from two install items named 1.sql with different contents
C35_Witness ==
    /\ job.op = "new"
    /\ Len(job.installItems) = 2
    /\ job.heap[job.installItems[1]].name = F1sql
    /\ job.heap[job.installItems[2]].name = F1sql
    /\ job.heap[job.installItems[1]].content # job.heap[job.installItems[2]].content
    /\ job.heap[job.heap[job.value].installScriptNames].items = <<F1sql>>
    /\ job.heap[job.heap[job.value]._installScripts].entries[F1sql] = job.installItems[2]

-----------------------------------------------------------------------------
(* Claims about a manager that is called again and again *)

Logged == DOMAIN db.logs

\* C36: with fixed sources and a version table that starts empty, after any sequence of
\* install and rollback calls, with any targets and any failures, the versions that have a
\* log row are a downward closed prefix of sources.versionNames: no logged version has a
\* smaller version of the sources that is not logged.
C36_LoggedIsPrefix ==
    /\ Logged \subseteq Range(sources.versionNames)
    /\ \A v \in Logged :
          \A u \in Range(sources.versionNames) : StrLess(u, v) => u \in Logged

\* after an install, a rollback that removed the row of v0002, committed, and then failed
C36_Witness ==
    /\ budget = 0
    /\ pc = "idle"
    /\ call.op = "rollback"
    /\ result = "failed"
    /\ EventIdx({"removeVersionLog"}, V0002) # {}
    /\ Logged = {V0001}

\* an invocation starts: install or rollback leaves "idle" with the current version read
Starts(op) == pc = "idle" /\ pc' # "idle" /\ call'.op = op

Succeeded(op) == pc = "idle" /\ call.op = op /\ result = "ok"

\* C37: install is idempotent. After a successful install(t) the current version is at least
\* every version of the sources that is <= t (every version when t is omitted), so an
\* install(t) repeated at once schedules no version, executes no script and inserts no log row.
C37_InstallIdempotent ==
    /\ [](Succeeded("install") =>
            \A v \in Range(sources.versionNames) :
                (call.targetVersion = UNDEFINED \/ StrLessEq(v, call.targetVersion))
                    => /\ getCurrentVersion(db) # NULL
                       /\ StrLessEq(v, getCurrentVersion(db)))
    /\ [][(Succeeded("install") /\ Starts("install") /\ call'.targetVersion = call.targetVersion)
             => call'.schedule = <<>>]_vars
    /\ []((call.op = "install" /\ call.schedule = <<>>) =>
            \A i \in 1..Len(events) :
                events[i].e \notin {"begin", "start", "unknown", "insertVersionLog", "commit"})
    /\ [][(call'.op = "install" /\ call'.schedule = <<>>) => db'.logs = db.logs]_vars

\* install(v0002) returned on a database whose current version was v0002 already
C37_Witness ==
    /\ budget = 0
    /\ Succeeded("install")
    /\ call.targetVersion = V0002
    /\ call.currentVersion = V0002
    /\ call.schedule = <<>>
    /\ Logged = {V0001, V0002}
    /\ EventNames = <<"getCurrentVersion", "open", "isVersionTableExist", "close">>

\* the versions whose log row the rollback removed, in the order of removal
Removed ==
    LET removals == SelectSeq(events, LAMBDA x : x.e = "removeVersionLog")
    IN [i \in 1..Len(removals) |-> removals[i].v]

\* C38: from an empty version table, a successful install() without target followed by a
\* successful rollback() without target processes the versions that the install processed, in
\* reverse order, and leaves the version table without a log row: getCurrentVersion is null.
C38_InstallRollbackSymmetry ==
    /\ [][(/\ Succeeded("install")
           /\ call.targetVersion = UNDEFINED
           /\ call.currentVersion = NULL
           /\ Starts("rollback")
           /\ call'.targetVersion = UNDEFINED)
             => /\ call.schedule = sources.versionNames
                /\ call'.schedule = Reverse(call.schedule)]_vars
    /\ []((Succeeded("rollback") /\ call.targetVersion = UNDEFINED) =>
            /\ call.currentVersion = Last(sources.versionNames)
                  => Removed = Reverse(sources.versionNames)
            /\ Logged = {}
            /\ getCurrentVersion(db) = NULL)

\* rollback() returned after it removed vXXXX, v0002 and v0001, which the install had logged
C38_Witness ==
    /\ budget = 0
    /\ Succeeded("rollback")
    /\ call.targetVersion = UNDEFINED
    /\ call.currentVersion = VXXXX
    /\ Removed = <<VXXXX, V0002, V0001>>
    /\ Logged = {}
    /\ db.tableExists

-----------------------------------------------------------------------------
(* Claims about termination *)

\* the versions whose transaction was committed, in the order of the commits
Commits ==
    LET commits == SelectSeq(events, LAMBDA x : x.e = "commit")
    IN [i \in 1..Len(commits) |-> commits[i].v]

IsPrefix(s, u) == Len(s) <= Len(u) /\ s = SubSeq(u, 1, Len(s))

\* the invocation has returned or rejected, no provider scope and no transaction is open
Terminated ==
    /\ pc = "idle"
    /\ scopes = 0
    /\ ~tx.open
    /\ \/ result = "ok" /\ Commits = call.schedule
       \/ result = "failed" /\ error # "none" /\ IsPrefix(Commits, call.schedule)

\* C39: when every dialect hook, driver call and embedded script settles, install and
\* rollback terminate: either every scheduled version has been processed and committed, in the
\* order of the schedule, or the first failure has reached the caller and no transaction is
\* left open.
C39_Terminates == (result = "running") ~> Terminated

\* a rollback that committed its first version and was rejected at the second
C39_Witness ==
    /\ Terminated
    /\ call.op = "rollback"
    /\ result = "failed"
    /\ Len(call.schedule) = 2
    /\ Len(Commits) = 1
    /\ Occurs("abort")

====
